---- MODULE Spec2Model ----
(***************************************************************************)
(* A model of the corpus pipeline of caesar-in-a-year:                     *)
(*   scripts/process-corpus.py   segmentation, distribution, alignment,    *)
(*                               banded scoring                            *)
(*   scripts/corpus/models.py    weighted and percentile scoring           *)
(* Texts are sequences of one-character strings.  Python floats are IEEE   *)
(* doubles: they are modelled as m * 2^e with a 53-bit mantissa m held as  *)
(* a little-endian sequence of 15-bit limbs, and every float operation     *)
(* rounds its exact result to nearest, ties to even, as the hardware does. *)
(***************************************************************************)
EXTENDS Integers, Sequences, FiniteSets, TLC

----------------------------------------------------------------------------
(* Natural numbers of any size: little-endian limb sequences, no leading   *)
(* zero limb; the empty sequence is 0.                                     *)

LimbBase == 2^15

Pow2(k) == 2^k

\* the largest element of a set of naturals
TopIndex(S) == CHOOSE i \in S : \A j \in S : j <= i

\* a without its leading zero limbs
BNorm(a) == SubSeq(a, 1, TopIndex({0} \cup {i \in 1..Len(a) : a[i] # 0}))

RECURSIVE BFromInt(_)
BFromInt(n) ==
    IF n = 0 THEN << >> ELSE <<n % LimbBase>> \o BFromInt(n \div LimbBase)

RECURSIVE BToInt(_)
BToInt(a) == IF a = << >> THEN 0 ELSE a[1] + LimbBase * BToInt(Tail(a))

\* limb i of a, 0 beyond its length
Limb(a, i) == IF i >= 1 /\ i <= Len(a) THEN a[i] ELSE 0

\* the carry into limb i of a + b: some lower limb generates a carry and
\* every limb between propagates it
BCarry(a, b, i) ==
    \E j \in 1..(i - 1) :
        /\ Limb(a, j) + Limb(b, j) >= LimbBase
        /\ \A k \in (j + 1)..(i - 1) : Limb(a, k) + Limb(b, k) = LimbBase - 1

BAddLimb(a, b, i) ==
    (Limb(a, i) + Limb(b, i) + (IF BCarry(a, b, i) THEN 1 ELSE 0)) % LimbBase

BAddLen(a, b) == 1 + (IF Len(a) > Len(b) THEN Len(a) ELSE Len(b))

BAdd(a, b) ==
    IF a = << >> THEN b
    ELSE IF b = << >> THEN a
    ELSE BNorm([i \in 1..BAddLen(a, b) |-> BAddLimb(a, b, i)])

\* the borrow from limb i of a - b
BBorrow(a, b, i) ==
    \E j \in 1..(i - 1) :
        /\ Limb(a, j) < Limb(b, j)
        /\ \A k \in (j + 1)..(i - 1) : Limb(a, k) = Limb(b, k)

BSubLimb(a, b, i) ==
    (a[i] - Limb(b, i) - (IF BBorrow(a, b, i) THEN 1 ELSE 0)) % LimbBase

\* a - b for a >= b
BSub(a, b) ==
    IF a = << >> \/ b = << >> THEN a
    ELSE BNorm([i \in 1..Len(a) |-> BSubLimb(a, b, i)])

BCmpAt(a, b, i) == IF i = 0 THEN 0 ELSE IF a[i] < b[i] THEN -1 ELSE 1

\* -1, 0, 1 as a < b, a = b, a > b
BCmp(a, b) ==
    IF Len(a) < Len(b) THEN -1
    ELSE IF Len(a) > Len(b) THEN 1
    ELSE BCmpAt(a, b, TopIndex({0} \cup {i \in 1..Len(a) : a[i] # b[i]}))

\* a * k for 0 <= k < LimbBase: the low halves of the limb products plus
\* their high halves one limb up
BMulSmall(a, k) ==
    IF a = << >> \/ k = 0 THEN << >>
    ELSE BAdd(BNorm([i \in 1..Len(a) |-> (a[i] * k) % LimbBase]),
              BNorm([i \in 1..(Len(a) + 1) |->
                        IF i = 1 THEN 0 ELSE (a[i - 1] * k) \div LimbBase]))

\* a * LimbBase^n
BShlLimbs(a, n) == IF a = << >> THEN << >> ELSE [i \in 1..n |-> 0] \o a

RECURSIVE BMul(_, _)
BMul(a, b) ==
    IF a = << >> \/ b = << >> THEN << >>
    ELSE BAdd(BMulSmall(a, b[1]), BShlLimbs(BMul(a, Tail(b)), 1))

\* a * 2^k
BShl(a, k) ==
    IF a = << >> \/ k = 0 THEN a
    ELSE BShlLimbs(BMulSmall(a, Pow2(k % 15)), k \div 15)

\* floor(b / 2^s) for 0 <= s < 15
BShrBits(b, s) ==
    BNorm([i \in 1..Len(b) |->
              (b[i] \div Pow2(s)) + (Limb(b, i + 1) % Pow2(s)) * Pow2(15 - s)])

\* floor(a / 2^k)
BShr(a, k) ==
    IF a = << >> \/ k = 0 THEN a
    ELSE IF k \div 15 >= Len(a) THEN << >>
    ELSE BShrBits(SubSeq(a, (k \div 15) + 1, Len(a)), k % 15)

\* the number of bits of a limb
IntBits(n) == CHOOSE k \in 0..15 : n < Pow2(k) /\ (k = 0 \/ n >= Pow2(k - 1))

\* the number of bits of a: 0 for 0
BBits(a) == IF a = << >> THEN 0 ELSE 15 * (Len(a) - 1) + IntBits(a[Len(a)])

BOdd(a) == a # << >> /\ a[1] % 2 = 1

\* the largest k in lo..hi with d * k <= r (d * lo <= r): binary search
RECURSIVE BDigit(_, _, _, _)
BDigit(r, d, lo, hi) ==
    IF lo = hi THEN lo
    ELSE IF BCmp(BMulSmall(d, (lo + hi + 1) \div 2), r) <= 0
    THEN BDigit(r, d, (lo + hi + 1) \div 2, hi)
    ELSE BDigit(r, d, lo, ((lo + hi + 1) \div 2) - 1)

\* one step of the long division of a by d, k being the quotient digit
\* estimated from the top limbs of r2, which is at most 2 too large
BDigitOf(r2, d, est) ==
    BDigit(r2, d, IF est < 2 THEN 0 ELSE est - 2,
           IF est > LimbBase - 1 THEN LimbBase - 1 ELSE est)

BDigitEstimate(r2, d, n) ==
    ((IF Len(r2) > n THEN r2[n + 1] ELSE 0) * LimbBase
     + (IF Len(r2) >= n THEN r2[n] ELSE 0)) \div d[n]

\* floor(a / d) and a mod d for d > 0 whose top limb has its top bit set:
\* long division, one limb at a time from the top; q holds the digits found,
\* r the remainder so far
RECURSIVE BDivLoop(_, _, _, _)
BDivStep(a, d, q, r2, k) ==
    BDivLoop(a, d, <<k>> \o q, BSub(r2, BMulSmall(d, k)))
BDivNext(a, d, q, r2) ==
    BDivStep(a, d, q, r2, BDigitOf(r2, d, BDigitEstimate(r2, d, Len(d))))
BDivLoop(a, d, q, r) ==
    IF Len(q) = Len(a) THEN [q |-> BNorm(q), r |-> r]
    ELSE BDivNext(a, d, q, BNorm(<<a[Len(a) - Len(q)]>> \o r))

\* the top Len(d) - 1 limbs of a are less than d: their digits are 0
BDivStart(a, d) ==
    IF Len(a) < Len(d) THEN [q |-> << >>, r |-> a]
    ELSE BDivLoop(a, d, [i \in 1..(Len(d) - 1) |-> 0],
                  SubSeq(a, Len(a) - Len(d) + 2, Len(a)))

BDivShifted(qr, sh) == [q |-> qr.q, r |-> BShr(qr.r, sh)]
BDivBy(a, d, sh) == BDivShifted(BDivStart(BShl(a, sh), BShl(d, sh)), sh)

\* floor(a / d) and a mod d for d > 0
BDivMod(a, d) == BDivBy(a, d, 15 - IntBits(d[Len(d)]))

----------------------------------------------------------------------------
(* IEEE-754 doubles, non-negative: [m, e] is m * 2^e with 2^52 <= m < 2^53, *)
(* and FZero is 0.0.                                                        *)

FZero == [m |-> << >>, e |-> 0]

\* m1 = the mantissa after rounding, of 53 or 54 bits
FRenorm(m1, e) ==
    IF BBits(m1) = 54 THEN [m |-> BShr(m1, 1), e |-> e + 1]
    ELSE [m |-> m1, e |-> e]

\* c = the dropped bits compared with one half: round to nearest, ties to even
FRoundUp(m0, c, e) ==
    FRenorm(IF c > 0 \/ (c = 0 /\ BOdd(m0)) THEN BAdd(m0, <<1>>) ELSE m0, e)

FRoundCut(num, drop, m0, e) ==
    FRoundUp(m0, BCmp(BSub(num, BShl(m0, drop)), BShl(<<1>>, drop - 1)),
             e + drop)

FRoundBits(num, e, bn) ==
    IF bn = 0 THEN FZero
    ELSE IF bn <= 53 THEN [m |-> BShl(num, 53 - bn), e |-> e - (53 - bn)]
    ELSE FRoundCut(num, bn - 53, BShr(num, bn - 53), e)

\* the double nearest to num * 2^e (ties to even), num an exact natural
FRoundNat(num, e) == FRoundBits(num, e, BBits(num))

\* qr = quotient and remainder: the quotient, of at least 55 bits, gets a
\* sticky bit for the remainder
FRoundQuot(qr, e) ==
    FRoundNat(BAdd(BAdd(qr.q, qr.q), IF qr.r = << >> THEN << >> ELSE <<1>>),
              e - 1)

FRoundScaled(num, den, e, s) ==
    FRoundQuot(BDivMod(IF s >= 0 THEN BShl(num, s) ELSE num,
                       IF s >= 0 THEN den ELSE BShl(den, -s)),
               e - s)

\* the double nearest to (num / den) * 2^e, num and den exact naturals,
\* den > 0
FRoundRat(num, den, e) ==
    IF num = << >> THEN FZero
    ELSE FRoundScaled(num, den, e, 56 + BBits(den) - BBits(num))

\* int -> float, and int / int (Python's true division is correctly rounded)
FInt(n) == FRoundNat(BFromInt(n), 0)
FRat(n, d) == FRoundRat(BFromInt(n), BFromInt(d), 0)

FAdd(x, y) ==
    IF x.m = << >> THEN y
    ELSE IF y.m = << >> THEN x
    ELSE LET e == IF x.e < y.e THEN x.e ELSE y.e
         IN  FRoundNat(BAdd(BShl(x.m, x.e - e), BShl(y.m, y.e - e)), e)

FMul(x, y) ==
    IF x.m = << >> \/ y.m = << >> THEN FZero
    ELSE FRoundNat(BMul(x.m, y.m), x.e + y.e)

\* x / y for y > 0
FDiv(x, y) ==
    IF x.m = << >> \/ y.m = << >> THEN FZero
    ELSE FRoundRat(x.m, y.m, x.e - y.e)

\* -1, 0, 1 as x < y, x = y, x > y
FCmp(x, y) ==
    IF x.m = << >> THEN (IF y.m = << >> THEN 0 ELSE -1)
    ELSE IF y.m = << >> THEN 1
    ELSE IF x.e # y.e THEN (IF x.e < y.e THEN -1 ELSE 1)
    ELSE BCmp(x.m, y.m)

\* x - y for x >= y
FSub(x, y) ==
    IF x.m = << >> \/ y.m = << >> THEN x
    ELSE LET e == IF x.e < y.e THEN x.e ELSE y.e
         IN  FRoundNat(BSub(BShl(x.m, x.e - e), BShl(y.m, y.e - e)), e)

FMin(x, y) == IF FCmp(y, x) < 0 THEN y ELSE x

\* floor(sqrt(n)) by Newton's iteration from x >= sqrt(n)
RECURSIVE BSqrtFrom(_, _)
BSqrtNext(n, x, y) == IF BCmp(y, x) < 0 THEN BSqrtFrom(n, y) ELSE x
BSqrtFrom(n, x) == BSqrtNext(n, x, BShr(BAdd(x, BDivMod(n, x).q), 1))

BSqrt(n) ==
    IF n = << >> THEN << >> ELSE BSqrtFrom(n, BShl(<<1>>, (BBits(n) + 1) \div 2))

\* s = floor(sqrt(n)), of at least 55 bits, gets a sticky bit for n - s*s
FSqrtRound(n, s, e) ==
    FRoundNat(BAdd(BAdd(s, s), IF BMul(s, s) = n THEN << >> ELSE <<1>>), e - 1)

FSqrtScaled(n, e) == FSqrtRound(n, BSqrt(n), e \div 2)

\* math.sqrt(x): the double nearest to the square root
FSqrt(x) ==
    IF x.m = << >> THEN FZero
    ELSE FSqrtScaled(BShl(x.m, 58 + (x.e % 2)), x.e - (58 + (x.e % 2)))

\* int(x) for x >= 0: truncation
FInt2Int(x) ==
    IF x.m = << >> THEN 0
    ELSE IF x.e >= 0 THEN BToInt(BShl(x.m, x.e))
    ELSE IF -x.e >= 53 THEN 0
    ELSE BToInt(BShr(x.m, -x.e))

----------------------------------------------------------------------------
(* Texts: sequences of one-character strings.                              *)

UpperSeq == <<"A", "B", "C", "D", "E", "F", "G", "H", "I", "J", "K", "L", "M",
              "N", "O", "P", "Q", "R", "S", "T", "U", "V", "W", "X", "Y", "Z">>
LowerSeq == <<"a", "b", "c", "d", "e", "f", "g", "h", "i", "j", "k", "l", "m",
              "n", "o", "p", "q", "r", "s", "t", "u", "v", "w", "x", "y", "z">>
DigitSeq == <<"0", "1", "2", "3", "4", "5", "6", "7", "8", "9">>

Upper == {UpperSeq[i] : i \in 1..26}
Lower == {LowerSeq[i] : i \in 1..26}
Digits == {DigitSeq[i] : i \in 1..10}

\* str.isspace, and \s of a str pattern
IsSpace(c) == c \in {" ", "\t", "\n"}

\* \w of a str pattern
IsWordChar(c) == c \in Upper \cup Lower \cup Digits \cup {"_"}

\* str.lower on one character
ToLower(c) ==
    IF c \in Upper THEN LowerSeq[CHOOSE i \in 1..26 : UpperSeq[i] = c] ELSE c

Min2(a, b) == IF a < b THEN a ELSE b
Max2(a, b) == IF a > b THEN a ELSE b

SetMin(S) == CHOOSE x \in S : \A y \in S : x <= y
SetMax(S) == CHOOSE x \in S : \A y \in S : x >= y

\* the elements of a set of integers in ascending order
SortedSeq(S) ==
    [k \in 1..Cardinality(S) |->
        CHOOSE x \in S : Cardinality({y \in S : y < x}) = k - 1]

\* str.strip()
Strip(t) ==
    LET keep == {i \in 1..Len(t) : ~IsSpace(t[i])}
    IN  IF keep = {} THEN << >> ELSE SubSeq(t, SetMin(keep), SetMax(keep))

\* sep.join(parts)
RECURSIVE Join(_, _)
Join(sep, parts) ==
    IF parts = << >> THEN << >>
    ELSE IF Len(parts) = 1 THEN parts[1]
    ELSE Join(sep, SubSeq(parts, 1, Len(parts) \div 2)) \o sep
         \o Join(sep, SubSeq(parts, (Len(parts) \div 2) + 1, Len(parts)))

\* the first index >= i of t that holds no whitespace, Len(t) + 1 if none
RunEnd(t, i) == SetMin({j \in i..(Len(t) + 1) : j = Len(t) + 1 \/ ~IsSpace(t[j])})

\* the first index >= i of t that holds whitespace, Len(t) + 1 if none
WordEnd(t, i) == SetMin({j \in i..(Len(t) + 1) : j = Len(t) + 1 \/ IsSpace(t[j])})

\* str.split(): the maximal runs of non-whitespace
SplitWs(t) ==
    LET starts == {i \in 1..Len(t) :
                     ~IsSpace(t[i]) /\ (i = 1 \/ IsSpace(t[i - 1]))}
        ss     == SortedSeq(starts)
    IN  [k \in 1..Len(ss) |-> SubSeq(t, ss[k], WordEnd(t, ss[k]) - 1)]

\* ' '.join(text.split())
NormalizeWs(t) == Join(<<" ">>, SplitWs(t))

Terminators == {".", "!", "?"}

\* re.compile(r'(?<=[.!?])\s+(?=[...])').split(t), the lookahead class being
\* `starters`: a separator is a whole run of whitespace that follows a
\* terminator and is followed by a starter
RegexSplit(t, starters) ==
    LET seps == {i \in 2..Len(t) :
                   /\ IsSpace(t[i])
                   /\ t[i - 1] \in Terminators
                   /\ RunEnd(t, i) <= Len(t)
                   /\ t[RunEnd(t, i)] \in starters}
        ss   == SortedSeq(seps)
        n    == Len(ss)
    IN  [k \in 1..(n + 1) |->
            SubSeq(t,
                   IF k = 1 THEN 1 ELSE RunEnd(t, ss[k - 1]),
                   IF k = n + 1 THEN Len(t) ELSE ss[k] - 1)]

\* (variant: the element at `end` is taken as well)
Slice_Inclusive(xs, start, end) ==
    SubSeq(xs, start + 1, Min2(end + 1, Len(xs)))

\* list[start:end] for 0 <= start
Slice(xs, start, end) == SubSeq(xs, start + 1, Min2(end, Len(xs)))

----------------------------------------------------------------------------
(* Records and identifiers (process-corpus.py, Data Structures).           *)

\* str(n) for an int n
RECURSIVE DecNat(_)
DecNat(n) == IF n < 10 THEN <<DigitSeq[n + 1]>>
             ELSE DecNat(n \div 10) \o <<DigitSeq[(n % 10) + 1]>>
Dec(n) == IF n < 0 THEN <<"-">> \o DecNat(-n) ELSE DecNat(n)

\* f"bg.{book}.{chapter}.{sentence_counter}"
SentenceId(b, c, n) ==
    <<"b", "g", ".">> \o Dec(b) \o <<".">> \o Dec(c) \o <<".">> \o Dec(n)

SegmentedSentence(id, latin, english, section, position, conf) ==
    [id |-> id, latin |-> latin, english |-> english, section |-> section,
     position |-> position, alignment_confidence |-> conf]

----------------------------------------------------------------------------
(* Translation alignment (process-corpus.py, align_translations).          *)

MISSING_SECTION ==
    <<"[", "M", "I", "S", "S", "I", "N", "G", " ",
      "S", "E", "C", "T", "I", "O", "N", "]">>
MISSING_TRANSLATION ==
    <<"[", "M", "I", "S", "S", "I", "N", "G", " ",
      "T", "R", "A", "N", "S", "L", "A", "T", "I", "O", "N", "]">>

NonEmpty(t) == t # << >>

SplitEnglishSentences(text) ==
    IF text = << >> \/ Strip(text) = << >> THEN << >>
    ELSE LET parts == RegexSplit(NormalizeWs(text), Upper)
         IN  SelectSeq([k \in 1..Len(parts) |-> Strip(parts[k])], NonEmpty)

\* the float literals of align_translations: 0.8 = 0x1.999999999999ap-1,
\* 0.9 = 0x1.ccccccccccccdp-1, 1.0
MismatchFactor == [m |-> <<6554, 13107, 26214, 204>>, e |-> -53]
FOne == [m |-> <<0, 0, 0, 128>>, e |-> -52]
\* (variant: sharing a target sentence costs nothing)
SharingPenalty_None == FOne
SharingPenalty == [m |-> <<19661, 6553, 13107, 230>>, e |-> -53]

\* the section numbers of the sentences, each once, in the order of first
\* appearance: the iteration order of sections_map
SectionsMap(latin_sentences) ==
    LET firsts == {k \in 1..Len(latin_sentences) :
                     \A j \in 1..(k - 1) :
                        latin_sentences[j].section # latin_sentences[k].section}
        ks     == SortedSeq(firsts)
    IN  [i \in 1..Len(ks) |-> latin_sentences[ks[i]].section]

\* (variant: > for >=)
MissingChunk_Strict(section_idx, english_sections) ==
    section_idx > Len(english_sections)

\* section_idx >= len(english_sections)
MissingChunk(section_idx, english_sections) ==
    section_idx >= Len(english_sections)

\* xs[i] of a Python list raises IndexError outside -len..len-1
IndexInRange(xs, i) == -Len(xs) <= i /\ i < Len(xs)
PyIndex(xs, i) == IF i >= 0 THEN xs[i + 1] ELSE xs[Len(xs) + i + 1]

\* (variant: the ratio taken as max over min)
BaseConfidence_Inverted(latin_count, english_count) ==
    IF latin_count = english_count THEN FOne
    ELSE FMul(FRat(Max2(latin_count, english_count),
                   Min2(latin_count, english_count)),
              MismatchFactor)

BaseConfidence(latin_count, english_count) ==
    IF latin_count = english_count THEN FOne
    ELSE FMul(FRat(Min2(latin_count, english_count),
                   Max2(latin_count, english_count)),
              MismatchFactor)

\* the (start, end) of each pass of the loop over latin_sents with
\* english_count >= latin_count, n passes left, idx the running index
RECURSIVE FanOutSpans(_, _, _)
FanOutSpans(n, per_latin, idx) ==
    IF n = 0 THEN << >>
    ELSE LET nxt == FAdd(idx, per_latin)
         IN  <<[start |-> FInt2Int(idx), end |-> FInt2Int(nxt)]>>
             \o FanOutSpans(n - 1, per_latin, nxt)

\* (variant: each span runs one sentence into the next)
FanOut_Overlapping(latin_count, english_sents) ==
    LET spans == FanOutSpans(latin_count,
                             FRat(Len(english_sents), latin_count), FZero)
    IN  [i \in 1..latin_count |->
            Join(<<" ">>,
                 Slice(english_sents, spans[i].start, spans[i].end + 1))]

FanOut(latin_count, english_sents) ==
    LET spans == FanOutSpans(latin_count,
                             FRat(Len(english_sents), latin_count), FZero)
    IN  [i \in 1..latin_count |->
            Join(<<" ">>, Slice(english_sents, spans[i].start, spans[i].end))]

\* min(int(i / per_english), english_count - 1)
FanInIndex(i, per_english, english_count) ==
    Min2(FInt2Int(FDiv(FInt(i), per_english)), english_count - 1)

FanInIndexes(latin_count, english_count) ==
    LET per_english == FRat(latin_count, english_count)
    IN  [i \in 1..latin_count |->
            FanInIndex(i - 1, per_english, english_count)]

\* one pass of the loop over sections_map: the english text of each of the
\* section's latin_count sentences, their confidence, and the exception
\* raised, if any
AlignSection(latin_count, section_num, english_sections) ==
    LET section_idx == section_num - 1
    IN  IF MissingChunk(section_idx, english_sections)
        THEN [english |-> [i \in 1..latin_count |-> MISSING_SECTION],
              conf |-> FZero, exc |-> "none"]
        ELSE IF ~IndexInRange(english_sections, section_idx)
        THEN [english |-> << >>, conf |-> FZero, exc |-> "IndexError"]
        ELSE
        LET english_sents ==
                SplitEnglishSentences(PyIndex(english_sections, section_idx))
            english_count == Len(english_sents)
            base_confidence == BaseConfidence(latin_count, english_count)
        IN  IF english_count = 0
            THEN [english |-> [i \in 1..latin_count |-> MISSING_TRANSLATION],
                  conf |-> FZero, exc |-> "none"]
            ELSE IF english_count >= latin_count
            THEN [english |-> FanOut(latin_count, english_sents),
                  conf |-> base_confidence, exc |-> "none"]
            ELSE LET idxs == FanInIndexes(latin_count, english_count)
                 IN  IF \E i \in 1..latin_count :
                            ~IndexInRange(english_sents, idxs[i])
                     THEN [english |-> << >>, conf |-> FZero,
                           exc |-> "IndexError"]
                     ELSE [english |-> [i \in 1..latin_count |->
                                          PyIndex(english_sents, idxs[i])],
                           conf |-> FMul(base_confidence, SharingPenalty),
                           exc |-> "none"]

\* the loop over sections_map; the sentences are updated in place and an
\* exception ends the call
RECURSIVE AlignLoop(_, _, _)
AlignLoop(sents, secs, english_sections) ==
    IF secs = << >> THEN [sents |-> sents, exc |-> "none"]
    ELSE LET sec == Head(secs)
             n   == Cardinality({k \in 1..Len(sents) : sents[k].section = sec})
             r   == AlignSection(n, sec, english_sections)
         IN  IF r.exc # "none" THEN [sents |-> sents, exc |-> r.exc]
             ELSE AlignLoop(
                    [k \in 1..Len(sents) |->
                       IF sents[k].section = sec
                       THEN [sents[k] EXCEPT
                               !.english = r.english[Cardinality(
                                  {j \in 1..k : sents[j].section = sec})],
                               !.alignment_confidence = r.conf]
                       ELSE sents[k]],
                    Tail(secs), english_sections)

align_translations(latin_sentences, english_sections) ==
    AlignLoop(latin_sentences, SectionsMap(latin_sentences), english_sections)

----------------------------------------------------------------------------
(* Distribution of a chapter's text over its sections                      *)
(* (process-corpus.py, _distribute_text; sources.py has the same code).    *)

\* (variant: one padding chunk too few)
PadChunks_Short(sentences, section_count) ==
    sentences \o [k \in 1..(section_count - Len(sentences) - 1) |-> << >>]

\* sentences + [''] * (section_count - len(sentences))
PadChunks(sentences, section_count) ==
    sentences \o [k \in 1..(section_count - Len(sentences)) |-> << >>]

\* the passes i, i+1, ... of the loop over range(section_count)
RECURSIVE DistributeLoop(_, _, _, _, _)
DistributeLoop(i, section_count, sentences, per_section, current_idx) ==
    IF i >= section_count THEN << >>
    ELSE LET nxt       == FAdd(current_idx, per_section)
             start_idx == FInt2Int(current_idx)
             end_idx   == IF i < section_count - 1 THEN FInt2Int(nxt)
                          ELSE Len(sentences)
         IN  <<Strip(Join(<<" ">>, Slice(sentences, start_idx, end_idx)))>>
             \o DistributeLoop(i + 1, section_count, sentences, per_section, nxt)

distribute_text(text, section_count) ==
    IF section_count <= 0 THEN << >>
    ELSE IF section_count = 1 THEN <<Strip(text)>>
    ELSE LET sentences == RegexSplit(text, Upper)
         IN  IF Len(sentences) <= section_count
             THEN PadChunks(sentences, section_count)
             ELSE DistributeLoop(0, section_count, sentences,
                                 FRat(Len(sentences), section_count), FZero)

----------------------------------------------------------------------------
(* Sentence segmentation (process-corpus.py, segment_regex and             *)
(* segment_latin).                                                         *)

Section(number, latin_text) ==
    [number |-> number, latin_text |-> latin_text, english_text |-> << >>]

\* the abbreviations, in the order of the set literal; the order in which
\* the loop of segment_regex meets the elements of the set is not fixed
LATIN_ABBREVS ==
    << <<"c", "f">>, <<"e", "t", "c">>, <<"i", ".", "e">>, <<"e", ".", "g">>,
       <<"v", "i", "z">>, <<"s", "c">>, <<"v", "s">>, <<"c", "a", "p">>,
       <<"l", "i", "b">>, <<"c">>, <<"a">>, <<"m">>, <<"l">>, <<"p">>,
       <<"q">>, <<"t">>, <<"d">>, <<"s">>, <<"n">> >>

Reverse(xs) == [k \in 1..Len(xs) |-> xs[Len(xs) + 1 - k]]

PERIOD == <<"<", "P", "E", "R", "I", "O", "D", ">">>

\* (variant: no period is protected)
SubAbbrev_None(t, abbrev) == t

\* re.sub(rf'\b({abbrev})\.', r'\1<PERIOD>', t, flags=re.IGNORECASE): the
\* period that follows the abbreviation becomes the placeholder
SubAbbrev(t, abbrev) ==
    LET n == Len(abbrev)
        hit(i) == /\ i >= 1
                  /\ i + n <= Len(t)
                  /\ (i = 1 \/ ~IsWordChar(t[i - 1]))
                  /\ \A k \in 1..n : ToLower(t[i + k - 1]) = abbrev[k]
                  /\ t[i + n] = "."
    IN  Join(<< >>, [i \in 1..Len(t) |->
                        IF hit(i - n) THEN PERIOD ELSE <<t[i]>>])

\* the loop over the abbreviations
RECURSIVE Protect(_, _)
Protect(t, abbrevs) ==
    IF t = << >> \/ abbrevs = << >> THEN t
    ELSE Protect(SubAbbrev(t, Head(abbrevs)), Tail(abbrevs))

\* sent.replace('<PERIOD>', '.')
Restore(t) ==
    LET at(i) == i >= 1 /\ i + 7 <= Len(t) /\ SubSeq(t, i, i + 7) = PERIOD
    IN  Join(<< >>, [i \in 1..Len(t) |->
                        IF at(i) THEN <<".">>
                        ELSE IF \E j \in (i - 7)..(i - 1) : at(j) THEN << >>
                        ELSE <<t[i]>>])

segment_regex(text, abbrevs) ==
    IF text = << >> \/ Strip(text) = << >> THEN << >>
    ELSE LET raw_sentences ==
                 RegexSplit(Protect(NormalizeWs(text), abbrevs),
                            Upper \cup {"["})
         IN  SelectSeq([k \in 1..Len(raw_sentences) |->
                           Strip(Restore(raw_sentences[k]))], NonEmpty)

\* (variant: the id numbered by the position within the section)
SectionSentences_IdByPosition(section, sentences, book, chapter, sentence_counter) ==
    [p \in 1..Len(sentences) |->
        SegmentedSentence(SentenceId(book, chapter, p), sentences[p], << >>,
                          section.number, p, FZero)]

\* the inner loop of segment_latin: the sentences of one section,
\* sentence_counter being the counter when the loop starts
SectionSentences(section, sentences, book, chapter, sentence_counter) ==
    [p \in 1..Len(sentences) |->
        SegmentedSentence(SentenceId(book, chapter, sentence_counter + p - 1),
                          sentences[p], << >>, section.number, p, FZero)]

\* the outer loop of segment_latin from section k on
RECURSIVE SegmentLoop(_, _, _, _, _, _, _)
SegmentLoop(sections, k, book, chapter, abbrevs, sentence_counter, all_sentences) ==
    IF k > Len(sections) THEN all_sentences
    ELSE LET sentences == segment_regex(sections[k].latin_text, abbrevs)
         IN  SegmentLoop(sections, k + 1, book, chapter, abbrevs,
                         sentence_counter + Len(sentences),
                         all_sentences \o
                             SectionSentences(sections[k], sentences, book,
                                              chapter, sentence_counter))

segment_latin(sections, book, chapter, abbrevs) ==
    SegmentLoop(sections, 1, book, chapter, abbrevs, 1, << >>)

----------------------------------------------------------------------------
(* Scoring (process-corpus.py: rank_to_difficulty, _tokenize_latin,        *)
(* lemmatize_and_score; corpus/models.py: calculate_raw_difficulty,        *)
(* calculate_difficulty, assign_percentile_difficulties).                  *)

Sentence(id, latin, referenceTranslation, difficulty, order, conf) ==
    [id |-> id, latin |-> latin, referenceTranslation |-> referenceTranslation,
     difficulty |-> difficulty, order |-> order, alignmentConfidence |-> conf]

\* the float literals of the scoring functions: 0.4, 0.2, 0.1, 0.04, 0.60,
\* 0.25, 0.15, 0.5
F04 == [m |-> <<6554, 13107, 26214, 204>>, e |-> -54]
F02 == [m |-> <<6554, 13107, 26214, 204>>, e |-> -55]
F01 == [m |-> <<6554, 13107, 26214, 204>>, e |-> -56]
F004 == [m |-> <<5243, 3932, 27525, 163>>, e |-> -57]
F060 == [m |-> <<13107, 26214, 19660, 153>>, e |-> -53]
F025 == [m |-> <<0, 0, 0, 128>>, e |-> -54]
F015 == [m |-> <<13107, 26214, 19660, 153>>, e |-> -55]
F05 == [m |-> <<0, 0, 0, 128>>, e |-> -53]

\* a negative float: the magnitude with a sign
FNegative(x) == [m |-> x.m, e |-> x.e, neg |-> TRUE]
IsNegative(x) == "neg" \in DOMAIN x /\ x.m # << >>

\* re.sub(r'[^\w\s]', ' ', text), lower(), split(), and the filter
\* len(w) > 1 and not w.isdigit()
IsToken(w) == Len(w) > 1 /\ ~(\A k \in 1..Len(w) : w[k] \in Digits)
tokenize_latin(text) ==
    SelectSeq(SplitWs([i \in 1..Len(text) |->
                          IF IsWordChar(text[i]) \/ IsSpace(text[i])
                          THEN ToLower(text[i]) ELSE " "]),
              IsToken)

\* dict.get(w, default)
DictGet(table, w, default) == IF w \in DOMAIN table THEN table[w] ELSE default

RECURSIVE Sum(_)
Sum(xs) ==
    IF xs = << >> THEN 0
    ELSE IF Len(xs) = 1 THEN xs[1]
    ELSE Sum(SubSeq(xs, 1, Len(xs) \div 2))
         + Sum(SubSeq(xs, (Len(xs) \div 2) + 1, Len(xs)))

\* max(1, int(avg_rank * 0.4)) for 0 <= avg_rank <= 50
LowBand(avg_rank) == Max2(1, FInt2Int(FMul(avg_rank, F04)))

rank_to_difficulty(avg_rank) ==
    IF IsNegative(avg_rank)
    THEN Max2(1, -FInt2Int(FMul([m |-> avg_rank.m, e |-> avg_rank.e], F04)))
    ELSE IF FCmp(avg_rank, FInt(50)) <= 0 THEN LowBand(avg_rank)
    ELSE IF FCmp(avg_rank, FInt(200)) <= 0
    THEN FInt2Int(FAdd(FInt(20), FMul(FSub(avg_rank, FInt(50)), F02)))
    ELSE IF FCmp(avg_rank, FInt(500)) <= 0
    THEN FInt2Int(FAdd(FInt(50), FMul(FSub(avg_rank, FInt(200)), F01)))
    ELSE Min2(100,
              FInt2Int(FAdd(FInt(80), FMul(FSub(avg_rank, FInt(500)), F004))))

default_rank == 400

\* the average rank of the words of a sentence
AverageRank(words, freq_table) ==
    IF words = << >> THEN FInt(default_rank)
    ELSE LET total == Sum([k \in 1..Len(words) |->
                             DictGet(freq_table, words[k], default_rank)])
         IN  IF total < 0 THEN FNegative(FRat(-total, Len(words)))
             ELSE FRat(total, Len(words))

\* (variant: order counted from 0)
ScoredSentence_FromZero(sent, order, freq_table) ==
    Sentence(sent.id, sent.latin, sent.english,
             rank_to_difficulty(AverageRank(tokenize_latin(sent.latin),
                                            freq_table)),
             order - 1, sent.alignment_confidence)

\* one pass of the loop of lemmatize_and_score
ScoredSentence(sent, order, freq_table) ==
    Sentence(sent.id, sent.latin, sent.english,
             rank_to_difficulty(AverageRank(tokenize_latin(sent.latin),
                                            freq_table)),
             order, sent.alignment_confidence)

\* freq_table is what load_frequency_table returns
lemmatize_and_score(sentences, freq_table) ==
    [order \in 1..Len(sentences) |->
        ScoredSentence(sentences[order], order, freq_table)]

\* min(1.0, max(0, (len(words) - 3) / 47))
LengthScore(n) == IF n <= 3 THEN FZero ELSE FMin(FOne, FRat(n - 3, 47))

\* the words whose rank is above max_rank * 0.5
HapaxCount(ranks, max_rank) ==
    Cardinality({k \in 1..Len(ranks) : 2 * ranks[k] > max_rank})

\* 0.60 * vocab_score + 0.25 * length_score + 0.15 * hapax_score
RawScore(total, n, hapax_count, max_rank) ==
    FAdd(FAdd(FMul(F060, FDiv(FSqrt(FRat(total, n)), FSqrt(FInt(max_rank)))),
              FMul(F025, LengthScore(n))),
         FMul(F015, FRat(hapax_count, n)))

\* the raw score of the given ranks, or the exception math.sqrt or the
\* division raises
RawOfRanks(ranks, max_rank) ==
    IF Sum(ranks) < 0 \/ max_rank < 0
    THEN [value |-> FZero, exc |-> "ValueError"]
    ELSE IF max_rank = 0
    THEN [value |-> FZero, exc |-> "ZeroDivisionError"]
    ELSE [value |-> RawScore(Sum(ranks), Len(ranks),
                             HapaxCount(ranks, max_rank), max_rank),
          exc |-> "none"]

WordRanks(words, freq_ranks, max_rank) ==
    [k \in 1..Len(words) |-> DictGet(freq_ranks, words[k], max_rank)]

calculate_raw_difficulty(latin_text, freq_ranks, max_rank) ==
    IF tokenize_latin(latin_text) = << >>
    THEN [value |-> F05, exc |-> "none"]
    ELSE RawOfRanks(WordRanks(tokenize_latin(latin_text), freq_ranks,
                              max_rank),
                    max_rank)

\* (variant: no clamp)
Clamp_None(d) == d

\* max(1, min(100, d))
Clamp(d) == Max2(1, Min2(100, d))

\* int(1 + 99 * x)
Scale(x) == FInt2Int(FAdd(FOne, FMul(FInt(99), x)))

DifficultyOfRaw(raw) ==
    IF raw.exc # "none" THEN [value |-> 0, exc |-> raw.exc]
    ELSE [value |-> Clamp(Scale(raw.value)), exc |-> "none"]

calculate_difficulty(latin_text, freq_ranks, max_rank) ==
    DifficultyOfRaw(calculate_raw_difficulty(latin_text, freq_ranks, max_rank))

\* the place of raw_scores[i] in sorted(enumerate(raw_scores), key=score):
\* the sort is stable
SortedRank(raw_scores, i) ==
    Cardinality({j \in 1..Len(raw_scores) :
                   \/ FCmp(raw_scores[j], raw_scores[i]) < 0
                   \/ (raw_scores[j] = raw_scores[i] /\ j < i)})

\* (variant: the difficulties in the order of the sorted scores, not
\* written back to the places the scores came from)
assign_percentile_difficulties_InSortedOrder(raw_scores) ==
    [i \in 1..Len(raw_scores) |->
        Clamp(Scale(FRat(i - 1, Max2(1, Len(raw_scores) - 1))))]

\* the percentile taken over n instead of n - 1
assign_percentile_difficulties_OverN(raw_scores) ==
    [i \in 1..Len(raw_scores) |->
        Clamp(Scale(FRat(SortedRank(raw_scores, i),
                         Max2(1, Len(raw_scores)))))]

assign_percentile_difficulties(raw_scores) ==
    [i \in 1..Len(raw_scores) |->
        Clamp(Scale(FRat(SortedRank(raw_scores, i),
                         Max2(1, Len(raw_scores) - 1))))]

----------------------------------------------------------------------------
(* Bounds of the inputs.                                                   *)

\* the most sentences of one section, and of one chunk, in the regular
\* alignment inputs
MaxLatin == 18
MaxEnglish == 14
\* the longest chunk among the chunks enumerated character by character
MaxEdgeLen == 3

\* the most sentences of a text to distribute, the most sections to
\* distribute it over, and the longest text among the texts enumerated
\* character by character
MaxSentences == 12
MaxSections == 9
MaxTextLen == 5

\* the most sections of a chapter to segment, and the longest section text
\* among the texts enumerated character by character
MaxChapterSections == 3
MaxLatinLen == 4

\* the most sentences to score, the most raw scores of a batch, and the
\* largest denominator of an average rank
MaxScored == 3
MaxBatch == 5
MaxRankDen == 3

EdgeAlphabet == {"A", "a", ".", " ", "\n"}
LatinAlphabet == {"A", "c", ".", " ", "["}

\* section texts: empty, blank, one sentence, sentences that end in . ! ?,
\* an abbreviation inside a sentence, a bracket that starts a sentence, a
\* lower-case start that does not
LatinTexts ==
    { << >>,
      <<" ", "\n">>,
      <<"E", "s", "t", ".">>,
      <<"A", ".", " ", "B", "!", " ", " ", "C", "?">>,
      <<"A", " ", "c", "f", ".", " ", "B", ".", " ", "D", ".">>,
      <<"A", ".", " ", "[", "B", "]", " ", "c", ".">>,
      <<"a", ".", " ", "b", ".", "\n", "C">>,
      <<"i", ".", "e", ".", "g", ".", " ", "A", ".", " ", "B">> }
\* texts that contain the characters <PERIOD>
PlaceholderTexts ==
    {<<"A">> \o PERIOD \o <<" ", "B", ".">>,
     <<"E", "s", "t", " ">> \o PERIOD \o <<" ", "e", "s", "t", ".">>}
TextAlphabet == {"A", ".", " "}

StringsUpTo(alphabet, n) == UNION {[1..k -> alphabet] : k \in 0..n}

\* k sentences "A. B. C. ...", each its own letter
RegularText(k) == Join(<<" ">>, [j \in 1..k |-> <<UpperSeq[j], ".">>])

\* the same k sentences with a leading blank, two blanks between sentences
\* and a trailing newline
PaddedText(k) ==
    <<" ">> \o Join(<<" ", " ">>, [j \in 1..k |-> <<UpperSeq[j], ".">>])
            \o <<"\n">>

\* a dict as a function, from its (key, value) pairs
DictOf(pairs) ==
    [w \in {p[1] : p \in pairs} |-> (CHOOSE p \in pairs : p[1] = w)[2]]

\* the entries of FALLBACK_FREQUENCY for the words of the sentences below;
\* none of their other words is in FALLBACK_FREQUENCY
FALLBACK_FREQUENCY ==
    DictOf({ <<<<"s", "u", "m">>, 1>>, <<<<"e", "t">>, 2>>,
             <<<<"i", "n">>, 3>>, <<<<"o", "m", "n", "i", "s">>, 13>>,
             <<<<"g", "a", "l", "l", "i", "a">>, 101>>,
             <<<<"t", "r", "e", "s">>, 103>> })

\* a table as content/latin_frequency.json may hold it
FileFrequency ==
    DictOf({ <<<<"e", "s", "t">>, 1000>>, <<<<"e", "t">>, 0>>,
             <<<<"g", "a", "l", "l", "i", "a">>, 5000>> })

\* a table with a negative rank
SignedFrequency ==
    DictOf({ <<<<"e", "s", "t">>, -5>>, <<<<"e", "t">>, 3>> })

\* fifty-one words
LongSentence == Join(<<" ">>, [k \in 1..51 |-> <<"e", "t">>])

\* sentences to score: words of the tables and others, no word at all,
\* digits and punctuation
ScoreTexts ==
    { <<"G", "a", "l", "l", "i", "a", " ", "e", "s", "t", " ",
        "o", "m", "n", "i", "s", " ", "d", "i", "v", "i", "s", "a", " ",
        "i", "n", " ", "p", "a", "r", "t", "e", "s", " ",
        "t", "r", "e", "s", ".">>,
      <<"E", "t", " ", "i", "n", " ", "s", "u", "m", ".">>,
      <<"A", ".">>,
      <<"1", "2", " ", "e", "s", "t", ",", " ", "x", "_", "y", "!">>,
      <<"G", "a", "l", "l", "i", "a", ".">> }

\* the target text and the confidence that come with a sentence to score
ScoreTarget(latin) ==
    IF Len(latin) = 2
    THEN [english |-> MISSING_SECTION, conf |-> FZero]
    ELSE IF Len(latin) > 10
    THEN [english |-> <<"A", ".", " ", "B", ".">>, conf |-> MismatchFactor]
    ELSE [english |-> <<"I", "t", " ", "i", "s", ".">>, conf |-> FOne]

\* the values the maximal rank takes
MaxRanks == {-1, 0, 1, 8, 350}

\* the numerators of the average ranks: around the band limits 50, 200, 500
RankNumerators ==
    {0, 1, 2, 49, 50, 51, 199, 200, 201, 400, 499, 500, 501, 1000, 5000}

\* the raw scores of a batch
RawScores == {FZero, F025, FOne}

\* segmented sentences with the given section numbers, as segment_latin
\* leaves them
SentencesOf(secs) ==
    [k \in 1..Len(secs) |->
        SegmentedSentence(SentenceId(1, 1, k), <<"E", "s", "t", ".">>, << >>,
            secs[k],
            Cardinality({j \in 1..k : secs[j] = secs[k]}),
            FZero)]

----------------------------------------------------------------------------
(* The corpus file (corpus/models.py and process-corpus.py:                *)
(* validate_sentence, validate_corpus_file, export_corpus, which are the   *)
(* same in both files).                                                    *)
(*                                                                         *)
(* A Python value is a record with one field that names its type: [none],  *)
(* [bool], [int], [float], [str], [list], [dict]. A file is NoFile, a text *)
(* that is not JSON ([invalid]), or a JSON value with its scalars as they  *)
(* are written: [null], [bool], [number |-> the literal], [string |-> the  *)
(* escaped characters], [array], [object].                                 *)

\* no file, no exception
NoFile == [absent |-> TRUE]
NoException == [type |-> "none"]

Raise(type, text, args) == [type |-> type, text |-> text, args |-> args]

\* the value of a digit, of a run of digits (exact), and 10^k
DigitValue(c) == CHOOSE d \in 0..9 : DigitSeq[d + 1] = c

RECURSIVE BDigitsValue(_)
BDigitsValue(ds) ==
    IF ds = << >> THEN << >>
    ELSE BAdd(BMulSmall(BDigitsValue(SubSeq(ds, 1, Len(ds) - 1)), 10),
              BFromInt(DigitValue(ds[Len(ds)])))

RECURSIVE BPow10(_)
BPow10(k) == IF k = 0 THEN <<1>> ELSE BMulSmall(BPow10(k - 1), 10)

\* the decimal digits of a natural
RECURSIVE BDec(_)
BDec(a) ==
    IF a = << >> THEN << >>
    ELSE LET qr == BDivMod(a, <<10>>)
         IN  BDec(qr.q) \o <<DigitSeq[BToInt(qr.r) + 1]>>

\* json.load of a number literal without an exponent: int(...) without a
\* fraction, float(...) (correctly rounded) with one
ParseNumber(lit) ==
    LET neg == lit[1] = "-"
        body == IF neg THEN Tail(lit) ELSE lit
        dots == {i \in 1..Len(body) : body[i] = "."}
        dot == CHOOSE i \in dots : TRUE
        whole == BDigitsValue(SubSeq(body, 1, dot - 1)
                                 \o SubSeq(body, dot + 1, Len(body)))
        x == FRoundRat(whole, BPow10(Len(body) - dot), 0)
    IN  IF dots = {}
        THEN [int |-> IF neg THEN 0 - BToInt(BDigitsValue(body))
                      ELSE BToInt(BDigitsValue(body))]
        ELSE [float |-> IF neg THEN FNegative(x) ELSE x]

\* the integer nearest to x * 10^p, the even one of two equally near
ScaledDigits(x, p) ==
    IF x.e >= 0 THEN BShl(BMul(x.m, BPow10(p)), x.e)
    ELSE LET num == BAdd(BMul(x.m, BPow10(p)), BShl(<<1>>, (0 - x.e) - 1))
             n == BShr(num, 0 - x.e)
         IN  IF BOdd(n) /\ BShl(n, 0 - x.e) = num THEN BSub(n, <<1>>) ELSE n

\* the least number q of decimal places, from p on, with which x reads back
RECURSIVE ReprPlaces(_, _)
ReprPlaces(x, p) ==
    IF FRoundRat(ScaledDigits(x, p), BPow10(p), 0) = [m |-> x.m, e |-> x.e]
    THEN p
    ELSE ReprPlaces(x, p + 1)

\* float.__repr__, which json.dump writes: the shortest decimal that reads
\* back as x, for 0.0 and for the x from 0.0001 to 10^16, which are written
\* without an exponent
FloatRepr(x) ==
    IF x.m = << >> THEN <<"0", ".", "0">>
    ELSE LET p == ReprPlaces(x, 1)
             ds == BDec(ScaledDigits(x, p))
             padded == [i \in 1..(p + 1 - Len(ds)) |-> "0"] \o ds
         IN  (IF IsNegative(x) THEN <<"-">> ELSE << >>)
                 \o SubSeq(padded, 1, Len(padded) - p) \o <<".">>
                 \o SubSeq(padded, Len(padded) - p + 1, Len(padded))

\* a character as json.dump writes it in a string (ensure_ascii=False), and
\* the character that a backslash and c stand for
EscapeChar(c) ==
    IF c = "\n" THEN <<"\\", "n">>
    ELSE IF c = "\t" THEN <<"\\", "t">>
    ELSE IF c \in {"\"", "\\"} THEN <<"\\", c>>
    ELSE <<c>>

UnescapeChar(c) == IF c = "n" THEN "\n" ELSE IF c = "t" THEN "\t" ELSE c

RECURSIVE Unescape(_)
Unescape(t) ==
    IF t = << >> THEN << >>
    ELSE IF t[1] = "\\"
    THEN <<UnescapeChar(t[2])>> \o Unescape(SubSeq(t, 3, Len(t)))
    ELSE <<t[1]>> \o Unescape(Tail(t))

\* json.dump: the JSON value written for a Python value
RECURSIVE Dump(_)
Dump(v) ==
    IF "none" \in DOMAIN v THEN [null |-> TRUE]
    ELSE IF "bool" \in DOMAIN v THEN v
    ELSE IF "int" \in DOMAIN v THEN [number |-> Dec(v.int)]
    ELSE IF "float" \in DOMAIN v THEN [number |-> FloatRepr(v.float)]
    ELSE IF "str" \in DOMAIN v
    THEN [string |->
             Join(<< >>, [i \in 1..Len(v.str) |-> EscapeChar(v.str[i])])]
    ELSE IF "list" \in DOMAIN v
    THEN [array |-> [i \in 1..Len(v.list) |-> Dump(v.list[i])]]
    ELSE [object |-> [k \in DOMAIN v.dict |-> Dump(v.dict[k])]]

\* json.load: the Python value read from a JSON value
RECURSIVE Load(_)
Load(j) ==
    IF "null" \in DOMAIN j THEN [none |-> TRUE]
    ELSE IF "bool" \in DOMAIN j THEN j
    ELSE IF "number" \in DOMAIN j THEN ParseNumber(j.number)
    ELSE IF "string" \in DOMAIN j THEN [str |-> Unescape(j.string)]
    ELSE IF "array" \in DOMAIN j
    THEN [list |-> [i \in 1..Len(j.array) |-> Load(j.array[i])]]
    ELSE [dict |-> [k \in DOMAIN j.object |-> Load(j.object[k])]]

\* bool(v)
Truthy(v) ==
    IF "none" \in DOMAIN v THEN FALSE
    ELSE IF "bool" \in DOMAIN v THEN v.bool
    ELSE IF "int" \in DOMAIN v THEN v.int # 0
    ELSE IF "float" \in DOMAIN v THEN v.float.m # << >>
    ELSE IF "str" \in DOMAIN v THEN v.str # << >>
    ELSE IF "list" \in DOMAIN v THEN v.list # << >>
    ELSE DOMAIN v.dict # {}

\* v is a number to Python's comparisons, and v < k, v > k for an int k >= 1
IsNumber(v) == DOMAIN v \subseteq {"int", "bool", "float"}

Less(v, k) ==
    IF "int" \in DOMAIN v THEN v.int < k
    ELSE IF "bool" \in DOMAIN v THEN (IF v.bool THEN 1 ELSE 0) < k
    ELSE IsNegative(v.float) \/ FCmp(v.float, FInt(k)) < 0

Greater(v, k) ==
    IF "int" \in DOMAIN v THEN v.int > k
    ELSE IF "bool" \in DOMAIN v THEN (IF v.bool THEN 1 ELSE 0) > k
    ELSE ~IsNegative(v.float) /\ FCmp(v.float, FInt(k)) > 0

\* re.match(r'^bg\.\d+\.\d+\.\d+$', s) for a str s of ASCII characters: $
\* also matches before a newline that ends s
MatchesId(s) ==
    LET body == IF s # << >> /\ s[Len(s)] = "\n"
                THEN SubSeq(s, 1, Len(s) - 1) ELSE s
        AllDigits(a, b) ==
            a <= b /\ \A k \in a..b : body[k] \in Digits
    IN  /\ Len(body) >= 8
        /\ SubSeq(body, 1, 3) = <<"b", "g", ".">>
        /\ \E i, j \in 5..Len(body) :
              /\ body[i] = "." /\ body[j] = "."
              /\ AllDigits(4, i - 1)
              /\ AllDigits(i + 1, j - 1)
              /\ AllDigits(j + 1, Len(body))

\* the exception that validate_sentence raises, NoException if it returns
validate_sentence(sent) ==
    LET ValidationError(text, args) == Raise("ValidationError", text, args)
        \* not v or not v.strip()
        Blank(v) == ~Truthy(v) \/ ("str" \in DOMAIN v /\ Strip(v.str) = << >>)
    IN  IF ~Truthy(sent.id)
        THEN ValidationError("Invalid sentence ID", <<sent.id>>)
        ELSE IF "str" \notin DOMAIN sent.id
        THEN Raise("TypeError", "expected string or bytes-like object", << >>)
        ELSE IF ~MatchesId(sent.id.str)
        THEN ValidationError("Invalid sentence ID", <<sent.id>>)
        ELSE IF Truthy(sent.latin) /\ "str" \notin DOMAIN sent.latin
        THEN Raise("AttributeError", "object has no attribute", <<"strip">>)
        ELSE IF Blank(sent.latin)
        THEN ValidationError("Empty Latin text for", <<sent.id>>)
        ELSE IF /\ Truthy(sent.referenceTranslation)
                /\ "str" \notin DOMAIN sent.referenceTranslation
        THEN Raise("AttributeError", "object has no attribute", <<"strip">>)
        ELSE IF Blank(sent.referenceTranslation)
        THEN ValidationError("Empty translation for", <<sent.id>>)
        ELSE IF ~IsNumber(sent.difficulty)
        THEN Raise("TypeError", "'<=' not supported", << >>)
        ELSE IF Less(sent.difficulty, 1) \/ Greater(sent.difficulty, 100)
        THEN ValidationError("Difficulty out of range for",
                             <<sent.id, sent.difficulty>>)
        ELSE IF ~IsNumber(sent.order)
        THEN Raise("TypeError", "'<' not supported", << >>)
        ELSE IF Less(sent.order, 1)
        THEN ValidationError("Invalid order for", <<sent.id, sent.order>>)
        ELSE NoException

\* d.get(key, default)
Get(d, key, default) == IF key \in DOMAIN d THEN d[key] ELSE default

\* the loop of validate_corpus_file from the element at index i - 1 on: the
\* exception raised, NoException when the loop ends
RECURSIVE ValidateFrom(_, _)
ValidateFrom(sentences, i) ==
    IF i > Len(sentences) THEN NoException
    ELSE IF "dict" \notin DOMAIN sentences[i]
    THEN Raise("AttributeError", "object has no attribute", <<"get">>)
    ELSE LET sent_dict == sentences[i].dict
             e == validate_sentence(
                      Sentence(Get(sent_dict, "id", [str |-> << >>]),
                               Get(sent_dict, "latin", [str |-> << >>]),
                               Get(sent_dict, "referenceTranslation",
                                   [str |-> << >>]),
                               Get(sent_dict, "difficulty", [int |-> 0]),
                               Get(sent_dict, "order", [int |-> 0]),
                               Get(sent_dict, "alignmentConfidence",
                                   [none |-> TRUE])))
         IN  IF e.type \in {"KeyError", "TypeError"}
             THEN Raise("ValidationError", "Invalid sentence at index",
                        <<[int |-> i - 1], e>>)
             ELSE IF e # NoException THEN e
             ELSE ValidateFrom(sentences, i + 1)

\* 'sentences' in data, for the data that have a membership test
Contains(data) ==
    LET key == <<"s", "e", "n", "t", "e", "n", "c", "e", "s">>
    IN  IF "dict" \in DOMAIN data THEN "sentences" \in DOMAIN data.dict
        ELSE IF "list" \in DOMAIN data
        THEN \E i \in 1..Len(data.list) : data.list[i] = [str |-> key]
        ELSE \E i \in 0..(Len(data.str) - 9) :
                SubSeq(data.str, i + 1, i + 9) = key

\* the exception that validate_corpus_file raises for the file's content,
\* NoException if it returns True
validate_corpus_file(file) ==
    IF file = NoFile
    THEN Raise("FileNotFoundError", "Corpus file not found", << >>)
    ELSE IF "invalid" \in DOMAIN file
    THEN Raise("ValidationError", "Invalid JSON", << >>)
    ELSE LET data == Load(file)
         IN  IF DOMAIN data \subseteq {"none", "bool", "int", "float"}
             THEN Raise("TypeError", "argument is not iterable", << >>)
             ELSE IF ~Contains(data)
             THEN Raise("ValidationError",
                        "Missing 'sentences' key in corpus", << >>)
             ELSE IF "dict" \notin DOMAIN data
             THEN Raise("TypeError", "indices must be integers", << >>)
             ELSE IF "list" \notin DOMAIN data.dict.sentences
             THEN Raise("ValidationError", "'sentences' must be a list",
                        << >>)
             ELSE IF data.dict.sentences.list = << >>
             THEN Raise("ValidationError", "Corpus is empty", << >>)
             ELSE ValidateFrom(data.dict.sentences.list, 1)

\* (variant: only the first sentence is validated)
ValidateAll_FirstOnly(sentences) ==
    IF sentences = << >> THEN NoException
    ELSE validate_sentence(sentences[1])

\* for sent in sentences: validate_sentence(sent): the first exception
RECURSIVE ValidateAll(_)
ValidateAll(sentences) ==
    IF sentences = << >> THEN NoException
    ELSE IF validate_sentence(sentences[1]) # NoException
    THEN validate_sentence(sentences[1])
    ELSE ValidateAll(Tail(sentences))

\* dataclasses.asdict
asdict(s) == [dict |-> s]

\* corpus_data of export_corpus, now = datetime.now().isoformat()
corpus_data(sentences, now) ==
    [dict |->
        [sentences |->
            [list |-> [i \in 1..Len(sentences) |-> asdict(sentences[i])]],
         metadata |->
            [dict |->
                [version |-> [str |-> <<"1", ".", "0">>],
                 generated_at |-> [str |-> now],
                 sentence_count |-> [int |-> Len(sentences)]]]]]

\* the longest corpus: the elements of a document, the sentences exported
MaxCorpus == 2

\* the sentences given to export_corpus, with fields of the declared types:
\* valid ones (a quotation mark in the text, an id that ends in a newline,
\* confidences None, 0.0, 0.9, 0.7200000000000001 and 1.0) and ones that
\* validate_sentence rejects
ExportedSentences ==
    LET id == [str |-> SentenceId(1, 1, 7)]
        latin == [str |-> <<"E", "s", "t", ".">>]
        english == [str |-> <<"I", "s", ".">>]
        valid == Sentence(id, latin, english, [int |-> 1], [int |-> 1],
                          [none |-> TRUE])
    IN  {valid,
         [valid EXCEPT !.id = [str |-> SentenceId(2, 12, 30) \o <<"\n">>],
                       !.alignmentConfidence = [float |-> FZero]],
         [valid EXCEPT !.latin = [str |-> <<"\"", "A", "\"", " ", "\\">>],
                       !.alignmentConfidence = [float |-> SharingPenalty]],
         [valid EXCEPT !.difficulty = [int |-> 100],
                       !.order = [int |-> 2],
                       !.alignmentConfidence =
                           [float |-> FMul(MismatchFactor, SharingPenalty)]],
         [valid EXCEPT !.alignmentConfidence = [float |-> FOne]],
         [valid EXCEPT !.id = [str |-> <<"b", "g", ".", "1">>]],
         [valid EXCEPT !.latin = [str |-> <<" ">>]],
         [valid EXCEPT !.referenceTranslation = [str |-> << >>]],
         [valid EXCEPT !.difficulty = [int |-> 0]],
         [valid EXCEPT !.difficulty = [int |-> 101]],
         [valid EXCEPT !.order = [int |-> 0]]}

\* an element of `sentences` that satisfies every rule, as it is written
ValidElement ==
    [id |-> [string |-> SentenceId(1, 1, 7)],
     latin |-> [string |-> <<"E", "s", "t", ".">>],
     referenceTranslation |-> [string |-> <<"I", "s", ".">>],
     difficulty |-> [number |-> <<"1">>],
     order |-> [number |-> <<"1">>],
     alignmentConfidence |-> [number |-> <<"0", ".", "9">>]]

\* other values of each field
FieldValues ==
    [id |-> {[string |-> << >>],
             [string |-> SentenceId(1, 1, 7) \o <<"\\", "n">>],
             [string |-> <<"b", "g", ".", "1", ".", "1">>],
             [number |-> <<"7">>],
             [null |-> TRUE]},
     latin |-> {[string |-> << >>], [string |-> <<" ">>],
                [number |-> <<"7">>]},
     referenceTranslation |-> {[string |-> <<" ">>], [bool |-> TRUE]},
     difficulty |-> {[number |-> <<"0">>], [number |-> <<"1", "0", "0">>],
                     [number |-> <<"1", "0", "1">>],
                     [number |-> <<"5", "0", ".", "5">>],
                     [bool |-> TRUE], [string |-> <<"5", "0">>]},
     order |-> {[number |-> <<"0">>], [number |-> <<"2">>],
                [number |-> <<"1", ".", "5">>], [string |-> <<"1">>]},
     alignmentConfidence |-> {[null |-> TRUE],
                              [number |-> <<"1", ".", "0">>],
                              [number |-> <<"1", ".", "5">>],
                              [number |-> <<"-", "0", ".", "5">>],
                              [string |-> <<"h", "i", "g", "h">>]}]

\* the elements of `sentences`: the valid one, the valid one with one field
\* changed or left out, an empty object, and elements that are no objects
Elements ==
    {[object |-> ValidElement], [object |-> << >>],
     [number |-> <<"5">>], [array |-> << >>]}
        \cup UNION {{[object |-> [ValidElement EXCEPT ![k] = v]] :
                        v \in FieldValues[k]} : k \in DOMAIN ValidElement}
        \cup {[object |-> [f \in DOMAIN ValidElement \ {k} |-> ValidElement[f]]] :
                 k \in DOMAIN ValidElement}

\* the contents of the file given to validate_corpus_file
Documents ==
    LET key == [string |-> <<"s", "e", "n", "t", "e", "n", "c", "e", "s">>]
    IN  {NoFile, [invalid |-> TRUE], [null |-> TRUE], [number |-> <<"5">>],
         key, [string |-> <<"x">>], [array |-> << >>], [array |-> <<key>>],
         [object |-> << >>],
         [object |-> [metadata |-> [object |-> << >>]]],
         [object |-> [sentences |-> [null |-> TRUE]]],
         [object |-> [sentences |-> [object |-> << >>]]],
         [object |-> [sentences |-> [array |-> << >>]]]}
        \cup {[object |-> [sentences |-> [array |-> es]]] :
                 es \in UNION {[1..n -> Elements] : n \in 1..MaxCorpus}}

\* datetime.now().isoformat() at two moments
Timestamps == {<<"T", "1">>, <<"T", "2">>}

----------------------------------------------------------------------------
(* The frequency table of the corpus (corpus/models.py, FrequencyBuilder). *)
(* The Counter is the sequence of its entries [word, count] in the order   *)
(* in which the words were first counted, the order a dict keeps.          *)

\* Counter.update(words)
RECURSIVE CounterUpdate(_, _)
CounterUpdate(counter, words) ==
    IF words = << >> THEN counter
    ELSE LET at == {i \in 1..Len(counter) : counter[i].word = words[1]}
             i == CHOOSE i \in at : TRUE
         IN  CounterUpdate(
                 IF at = {}
                 THEN Append(counter, [word |-> words[1], count |-> 1])
                 ELSE [counter EXCEPT ![i].count = @ + 1],
                 Tail(words))

\* FrequencyBuilder.add_text: the counter after the call
add_text(counter, latin_text) ==
    CounterUpdate(counter, tokenize_latin(latin_text))

\* (variant: of the entries with equal counts the later one comes first)
MostCommonIndex_LaterFirst(counter, i) ==
    1 + Cardinality({j \in 1..Len(counter) :
                        \/ counter[j].count > counter[i].count
                        \/ counter[j].count = counter[i].count /\ j > i})

\* the place, from 1, of entry i in Counter.most_common(): sorted by count
\* with reverse=True, a stable sort that keeps entries with equal counts in
\* their order
MostCommonIndex(counter, i) ==
    1 + Cardinality({j \in 1..Len(counter) :
                        \/ counter[j].count > counter[i].count
                        \/ counter[j].count = counter[i].count /\ j < i})

\* FrequencyBuilder.build_ranks: the dict word -> rank
build_ranks(counter) ==
    [w \in {counter[i].word : i \in 1..Len(counter)} |->
        MostCommonIndex(counter,
                        CHOOSE i \in 1..Len(counter) : counter[i].word = w)]

\* FrequencyBuilder.get_max_rank
get_max_rank(counter) == Len(counter)

\* the most calls of add_text, and the texts given to it
MaxAdded == 3
FrequencyTexts ==
    { << >>,
      <<"e", "t", " ", "i", "n">>,
      <<"I", "n", " ", "e", "t", ",", " ", "e", "t", ".">>,
      <<"s", "u", "m", " ", "a", " ", "1", "2", " ", "i", "n">>,
      <<"s", "u", "m", ";", "E", "T">> }

----------------------------------------------------------------------------
VARIABLES
    pc,                 \* "align" before the call, "done" after it
    latin_sentences,    \* align_translations: the sentences, updated in place
    english_sections,   \* align_translations: the chunks
    exc,                \* the exception the call raised, "none" if none
    text,               \* _distribute_text: the text
    section_count,      \* _distribute_text: the number of sections
    chunks,             \* _distribute_text: the list returned
    sections,           \* segment_latin: the sections
    book,               \* segment_latin: the book number
    chapter,            \* segment_latin: the chapter number
    all_sentences,      \* segment_latin: the list returned
    avg_rank,           \* rank_to_difficulty: the average rank
    latin_text,         \* calculate_difficulty: the sentence
    freq_ranks,         \* calculate_difficulty: the frequency table
    max_rank,           \* calculate_difficulty: the maximal rank
    difficulty,         \* the value rank_to_difficulty or
                        \* calculate_difficulty returned
    raw_scores,         \* assign_percentile_difficulties: the batch
    difficulties,       \* assign_percentile_difficulties: the list returned
    sentences,          \* lemmatize_and_score: the sentences
    freq_table,         \* lemmatize_and_score: what load_frequency_table
                        \* returned
    result,             \* lemmatize_and_score: the list returned
    corpus,             \* export_corpus: the sentences to export
    output_file,        \* the content of the file at the corpus path
    temp_file,          \* export_corpus: the content of the file at temp_path
    raised,             \* the exception export_corpus or validate_corpus_file
                        \* raised
    counter,            \* FrequencyBuilder: _counter
    added,              \* FrequencyBuilder: the texts given to add_text so far
    ranks,              \* FrequencyBuilder: what build_ranks returned
    stages,             \* process_chapter: the stages run so far
    exit_code,          \* process_chapter: the value returned, -1 before
    attempt,            \* _http_get_with_retry: attempt (the attempts failed)
    requests,           \* _http_get_with_retry: the calls of requests.get
    slept,              \* _http_get_with_retry: the waits of time.sleep
    response,           \* _http_get_with_retry: how the last call ended
    written,            \* fetch_sources: the cache files written by the call
    force_fetch,        \* process_chapter: force_fetch
    latin_cached,       \* fetch_sources: latin_path.exists()
    english_cached,     \* fetch_sources: english_path.exists()
    cache_file,         \* PerseusSource: the content of chapter_counts.json
    chapter_counts,     \* PerseusSource: _chapter_counts of every instance
    discovered,         \* get_chapter_count: the books discovered so far
    returned            \* get_chapter_count: the value the last call returned

alignVars == <<latin_sentences, english_sections>>
distributeVars == <<text, section_count, chunks>>
segmentVars == <<sections, book, chapter, all_sentences>>
difficultyVars ==
    <<avg_rank, latin_text, freq_ranks, max_rank, difficulty, raw_scores,
      difficulties>>
scoreVars == <<sentences, freq_table, result>>
corpusVars == <<corpus, output_file, temp_file, raised>>
frequencyVars == <<counter, added, ranks>>
retryVars == <<attempt, requests, slept, response>>
pipelineVars ==
    <<stages, exit_code, retryVars, written, force_fetch, latin_cached,
      english_cached>>
perseusVars == <<cache_file, chapter_counts, discovered, returned>>
otherVars == <<corpusVars, frequencyVars, pipelineVars, perseusVars>>
vars ==
    <<pc, exc, alignVars, distributeVars, segmentVars, difficultyVars,
      scoreVars, otherVars>>

\* the variables of the operations a specification does not run
NoAlign == latin_sentences = << >> /\ english_sections = << >>
NoDistribute == text = << >> /\ section_count = 0 /\ chunks = << >>
NoSegment ==
    sections = << >> /\ book = 0 /\ chapter = 0 /\ all_sentences = << >>
NoScore ==
    /\ avg_rank = FZero
    /\ latin_text = << >> /\ freq_ranks = << >> /\ max_rank = 0
    /\ difficulty = 0
    /\ raw_scores = << >> /\ difficulties = << >>
    /\ sentences = << >> /\ freq_table = << >> /\ result = << >>

NoCorpus ==
    /\ corpus = << >>
    /\ output_file = NoFile /\ temp_file = NoFile
    /\ raised = NoException
NoFrequency == counter = << >> /\ added = << >> /\ ranks = << >>
NoPipeline ==
    /\ stages = << >> /\ exit_code = -1
    /\ attempt = 0 /\ requests = 0 /\ slept = << >> /\ response = "none"
    /\ written = {}
    /\ force_fetch = FALSE /\ latin_cached = FALSE /\ english_cached = FALSE
NoPerseus ==
    /\ cache_file = NoFile /\ chapter_counts = << >>
    /\ discovered = {} /\ returned = 0
NoOther == NoCorpus /\ NoFrequency /\ NoPipeline /\ NoPerseus

\* one long section against one regular chunk, with or without a second
\* section and a second chunk
InitAlignRegular ==
    \E l1 \in 1..MaxLatin, e1 \in 0..MaxEnglish, l2 \in 0..1, n \in 1..2 :
        /\ latin_sentences =
              SentencesOf([k \in 1..(l1 + l2) |-> IF k <= l1 THEN 1 ELSE 2])
        /\ english_sections =
              IF n = 1 THEN <<RegularText(e1)>>
              ELSE <<RegularText(e1), RegularText(2)>>

\* one or two sentences in any section order against no chunk or one chunk
\* of any characters
InitAlignEdge ==
    \E secs \in UNION {[1..k -> {1, 2}] : k \in 0..2} :
        /\ latin_sentences = SentencesOf(secs)
        /\ \/ english_sections = << >>
           \/ \E c \in StringsUpTo(EdgeAlphabet, MaxEdgeLen) :
                 english_sections = <<c>>

InitAlign ==
    /\ pc = "align"
    /\ exc = "none"
    /\ (InitAlignRegular \/ InitAlignEdge)
    /\ NoDistribute
    /\ NoSegment
    /\ NoScore
    /\ NoOther

AlignTranslations ==
    /\ pc = "align"
    /\ LET r == align_translations(latin_sentences, english_sections)
       IN  /\ latin_sentences' = r.sents
           /\ exc' = r.exc
    /\ pc' = "done"
    /\ UNCHANGED <<english_sections, distributeVars, segmentVars,
                   difficultyVars, scoreVars, otherVars>>

NextAlign == AlignTranslations

SpecAlign == InitAlign /\ [][NextAlign]_vars

\* a text of sentences, plain or padded, or any short text, to distribute
\* over any number of sections
InitDistribute ==
    /\ pc = "distribute"
    /\ exc = "none"
    /\ \/ /\ \E k \in 0..MaxSentences : text \in {RegularText(k), PaddedText(k)}
          /\ section_count \in -1..MaxSections
       \/ /\ text \in StringsUpTo(TextAlphabet, MaxTextLen)
          /\ section_count \in -1..3
    /\ chunks = << >>
    /\ NoAlign
    /\ NoSegment
    /\ NoScore
    /\ NoOther

DistributeText ==
    /\ pc = "distribute"
    /\ chunks' = distribute_text(text, section_count)
    /\ pc' = "done"
    /\ UNCHANGED <<exc, text, section_count, alignVars, segmentVars,
                   difficultyVars, scoreVars, otherVars>>

NextDistribute == DistributeText

SpecDistribute == InitDistribute /\ [][NextDistribute]_vars

\* up to MaxChapterSections sections with ascending numbers, the first
\* numbered 1 or 2, each with one of the section texts
InitSegmentChapter ==
    \E n \in 0..MaxChapterSections, first \in 1..2 :
        \E texts \in [1..n -> LatinTexts] :
            /\ sections = [k \in 1..n |-> Section(first + k - 1, texts[k])]
            /\ \E bc \in {<<1, 1>>, <<2, 12>>} : book = bc[1] /\ chapter = bc[2]

\* one section with any short text, or with a text in which the placeholder
\* of segment_regex occurs
InitSegmentEdge ==
    \E t \in StringsUpTo(LatinAlphabet, MaxLatinLen) \cup PlaceholderTexts :
        /\ sections = <<Section(1, t)>>
        /\ book = 1
        /\ chapter = 1

InitSegment ==
    /\ pc = "segment"
    /\ exc = "none"
    /\ (InitSegmentChapter \/ InitSegmentEdge)
    /\ all_sentences = << >>
    /\ NoAlign
    /\ NoDistribute
    /\ NoScore
    /\ NoOther

\* the loop over the set LATIN_ABBREVS runs in an order the language does
\* not fix: the order of the set literal and its reverse stand for the
\* orders
SegmentLatin ==
    /\ pc = "segment"
    /\ \E abbrevs \in {LATIN_ABBREVS, Reverse(LATIN_ABBREVS)} :
          all_sentences' = segment_latin(sections, book, chapter, abbrevs)
    /\ pc' = "done"
    /\ UNCHANGED <<exc, sections, book, chapter, alignVars, distributeVars,
                   difficultyVars, scoreVars, otherVars>>

NextSegment == SegmentLatin

SpecSegment == InitSegment /\ [][NextSegment]_vars

\* an average rank of either sign
InitRank ==
    /\ pc = "rank"
    /\ \E p \in RankNumerators, q \in 1..MaxRankDen :
          avg_rank \in {FRat(p, q), FNegative(FRat(p, q))}
    /\ latin_text = << >> /\ freq_ranks = << >> /\ max_rank = 0
    /\ raw_scores = << >>
    /\ sentences = << >> /\ freq_table = << >>

\* a sentence, a table and a maximal rank
InitCalculate ==
    /\ pc = "calculate"
    /\ latin_text \in ScoreTexts \cup {<< >>, LongSentence}
    /\ freq_ranks \in
          {<< >>, FALLBACK_FREQUENCY, FileFrequency, SignedFrequency}
    /\ max_rank \in MaxRanks
    /\ avg_rank = FZero
    /\ raw_scores = << >>
    /\ sentences = << >> /\ freq_table = << >>

\* a batch of raw scores
InitPercentile ==
    /\ pc = "percentile"
    /\ raw_scores \in UNION {[1..n -> RawScores] : n \in 0..MaxBatch}
    /\ avg_rank = FZero
    /\ latin_text = << >> /\ freq_ranks = << >> /\ max_rank = 0
    /\ sentences = << >> /\ freq_table = << >>

\* aligned sentences and the table that load_frequency_table returns: the
\* built-in table or the content of the file
InitLemmatize ==
    /\ pc = "score"
    /\ \E n \in 0..MaxScored :
          \E latin \in [1..n -> ScoreTexts] :
              sentences =
                  [k \in 1..n |->
                      SegmentedSentence(SentenceId(1, 1, k), latin[k],
                                        ScoreTarget(latin[k]).english, 1, k,
                                        ScoreTarget(latin[k]).conf)]
    /\ freq_table \in {FALLBACK_FREQUENCY, FileFrequency}
    /\ avg_rank = FZero
    /\ latin_text = << >> /\ freq_ranks = << >> /\ max_rank = 0
    /\ raw_scores = << >>

InitScore ==
    /\ exc = "none"
    /\ difficulty = 0
    /\ difficulties = << >>
    /\ result = << >>
    /\ (InitRank \/ InitCalculate \/ InitPercentile \/ InitLemmatize)
    /\ NoAlign
    /\ NoDistribute
    /\ NoSegment
    /\ NoOther

RankToDifficulty ==
    /\ pc = "rank"
    /\ difficulty' = rank_to_difficulty(avg_rank)
    /\ pc' = "rank_done"
    /\ UNCHANGED <<exc, avg_rank, latin_text, freq_ranks, max_rank, raw_scores,
                   difficulties, scoreVars, alignVars, distributeVars,
                   segmentVars, otherVars>>

CalculateDifficulty ==
    /\ pc = "calculate"
    /\ \E r \in {calculate_difficulty(latin_text, freq_ranks, max_rank)} :
          /\ difficulty' = r.value
          /\ exc' = r.exc
    /\ pc' = "calculate_done"
    /\ UNCHANGED <<avg_rank, latin_text, freq_ranks, max_rank, raw_scores,
                   difficulties, scoreVars, alignVars, distributeVars,
                   segmentVars, otherVars>>

AssignPercentileDifficulties ==
    /\ pc = "percentile"
    /\ difficulties' = assign_percentile_difficulties(raw_scores)
    /\ pc' = "percentile_done"
    /\ UNCHANGED <<exc, avg_rank, latin_text, freq_ranks, max_rank, difficulty,
                   raw_scores, scoreVars, alignVars, distributeVars,
                   segmentVars, otherVars>>

LemmatizeAndScore ==
    /\ pc = "score"
    /\ result' = lemmatize_and_score(sentences, freq_table)
    /\ pc' = "score_done"
    /\ UNCHANGED <<exc, sentences, freq_table, difficultyVars, alignVars,
                   distributeVars, segmentVars, otherVars>>

NextScore ==
    \/ RankToDifficulty
    \/ CalculateDifficulty
    \/ AssignPercentileDifficulties
    \/ LemmatizeAndScore

SpecScore == InitScore /\ [][NextScore]_vars

----------------------------------------------------------------------------
\* validate_corpus_file on a file with any of the documents
InitValidate ==
    /\ pc = "validate"
    /\ output_file \in Documents
    /\ corpus = << >>

\* export_corpus of up to MaxCorpus sentences to a path where no file or an
\* older corpus is
InitExport ==
    /\ pc = "export"
    /\ corpus \in UNION {[1..n -> ExportedSentences] : n \in 0..MaxCorpus}
    /\ output_file
          \in {NoFile,
               Dump(corpus_data(<<Sentence([str |-> SentenceId(9, 9, 9)],
                                           [str |-> <<"O", "l", "d", ".">>],
                                           [str |-> <<"O", "l", "d", ".">>],
                                           [int |-> 9], [int |-> 1],
                                           [none |-> TRUE])>>,
                                <<"T", "0">>))}

InitCorpus ==
    /\ exc = "none"
    /\ temp_file = NoFile
    /\ raised = NoException
    /\ (InitValidate \/ InitExport)
    /\ NoAlign
    /\ NoDistribute
    /\ NoSegment
    /\ NoScore
    /\ NoFrequency
    /\ NoPipeline
    /\ NoPerseus

\* export_corpus: for sent in sentences: validate_sentence(sent)
ExportValidate ==
    /\ pc = "export"
    /\ raised' = ValidateAll(corpus)
    /\ pc' = IF raised' = NoException THEN "export_write" ELSE "export_raised"
    /\ UNCHANGED <<exc, corpus, output_file, temp_file, alignVars,
                   distributeVars, segmentVars, difficultyVars, scoreVars,
                   frequencyVars, pipelineVars, perseusVars>>

\* export_corpus: json.dump(corpus_data, f) into temp_path
ExportWriteTemp ==
    /\ pc = "export_write"
    /\ \E now \in Timestamps : temp_file' = Dump(corpus_data(corpus, now))
    /\ pc' = "export_rename"
    /\ UNCHANGED <<exc, corpus, output_file, raised, alignVars,
                   distributeVars, segmentVars, difficultyVars, scoreVars,
                   frequencyVars, pipelineVars, perseusVars>>

\* export_corpus: temp_path.rename(output)
ExportRename ==
    /\ pc = "export_rename"
    /\ output_file' = temp_file
    /\ temp_file' = NoFile
    /\ pc' = "exported"
    /\ UNCHANGED <<exc, corpus, raised, alignVars, distributeVars,
                   segmentVars, difficultyVars, scoreVars, frequencyVars,
                   pipelineVars, perseusVars>>

\* export_corpus: open, json.dump or rename raises: the temp file is
\* unlinked if it exists and ValidationError is raised
ExportFails ==
    /\ pc \in {"export_write", "export_rename"}
    /\ temp_file' = NoFile
    /\ raised' = Raise("ValidationError", "Failed to write corpus", << >>)
    /\ pc' = "export_raised"
    /\ UNCHANGED <<exc, corpus, output_file, alignVars, distributeVars,
                   segmentVars, difficultyVars, scoreVars, frequencyVars,
                   pipelineVars, perseusVars>>

\* validate_corpus_file on the file at the corpus path, as it was given or
\* as export_corpus wrote it
ValidateCorpusFile ==
    /\ pc \in {"validate", "exported"}
    /\ raised' = validate_corpus_file(output_file)
    /\ pc' = IF pc = "validate" THEN "validate_done" ELSE "round_trip_done"
    /\ UNCHANGED <<exc, corpus, output_file, temp_file, alignVars,
                   distributeVars, segmentVars, difficultyVars, scoreVars,
                   frequencyVars, pipelineVars, perseusVars>>

NextCorpus ==
    \/ ExportValidate
    \/ ExportWriteTemp
    \/ ExportRename
    \/ ExportFails
    \/ ValidateCorpusFile

SpecCorpus == InitCorpus /\ [][NextCorpus]_vars

----------------------------------------------------------------------------
\* a FrequencyBuilder as __init__ leaves it
InitFrequency ==
    /\ pc = "adding"
    /\ exc = "none"
    /\ counter = << >>
    /\ added = << >>
    /\ ranks = << >>
    /\ NoAlign
    /\ NoDistribute
    /\ NoSegment
    /\ NoScore
    /\ difficulty = 0 /\ difficulties = << >> /\ result = << >>
    /\ NoCorpus
    /\ NoPipeline
    /\ NoPerseus

\* FrequencyBuilder.add_text with one of the texts
AddText ==
    /\ pc \in {"adding", "ranked"}
    /\ Len(added) < MaxAdded
    /\ \E t \in FrequencyTexts :
          /\ counter' = add_text(counter, t)
          /\ added' = Append(added, t)
    /\ pc' = "adding"
    /\ UNCHANGED <<exc, ranks, alignVars, distributeVars, segmentVars,
                   difficultyVars, scoreVars, corpusVars, pipelineVars,
                   perseusVars>>

\* FrequencyBuilder.build_ranks
BuildRanks ==
    /\ pc = "adding"
    /\ ranks' = build_ranks(counter)
    /\ pc' = "ranked"
    /\ UNCHANGED <<exc, counter, added, alignVars, distributeVars, segmentVars,
                   difficultyVars, scoreVars, corpusVars, pipelineVars,
                   perseusVars>>

NextFrequency == AddText \/ BuildRanks

SpecFrequency == InitFrequency /\ [][NextFrequency]_vars

----------------------------------------------------------------------------
(* The pipeline of one chapter (process-corpus.py, process_chapter).       *)
(* The stages' results are taken from the operators above where a claim    *)
(* needs them; here a stage is what process_chapter sees of it: it returns *)
(* or it raises one of the exceptions its code can raise.                  *)

EXIT_SUCCESS == 0
EXIT_FETCH_FAILED == 1
EXIT_PARSE_FAILED == 2
EXIT_ALIGNMENT_FAILED == 3
EXIT_VALIDATION_FAILED == 4

\* _http_get_with_retry: max_retries
max_retries == 3

\* (variant: the parse and alignment handlers exchanged)
Handled_Exchanged(e) ==
    CASE e = "FetchError" -> EXIT_FETCH_FAILED
      [] e = "ParseError" -> EXIT_ALIGNMENT_FAILED
      [] e = "AlignmentError" -> EXIT_PARSE_FAILED
      [] e = "ValidationError" -> EXIT_VALIDATION_FAILED
      [] OTHER -> -1

\* the except clauses of process_chapter: the value returned for an
\* exception, -1 for an exception that no clause catches
Handled(e) ==
    CASE e = "FetchError" -> EXIT_FETCH_FAILED
      [] e = "ParseError" -> EXIT_PARSE_FAILED
      [] e = "AlignmentError" -> EXIT_ALIGNMENT_FAILED
      [] e = "ValidationError" -> EXIT_VALIDATION_FAILED
      [] OTHER -> -1

\* process_chapter is called: with or without --force-fetch, with either
\* source in the cache or not
InitPipeline ==
    /\ pc = "fetch"
    /\ exc = "none"
    /\ stages = << >>
    /\ exit_code = -1
    /\ attempt = 0 /\ requests = 0 /\ slept = << >> /\ response = "none"
    /\ written = {}
    /\ force_fetch \in BOOLEAN
    /\ latin_cached \in BOOLEAN
    /\ english_cached \in BOOLEAN
    /\ NoAlign
    /\ NoDistribute
    /\ NoSegment
    /\ NoScore
    /\ NoCorpus
    /\ NoFrequency
    /\ NoPerseus

\* a stage raises e: control goes to the except clauses
Raises(e) == pc' = "except" /\ exc' = e

\* (variant: the cache is never used)
UseCache_Never == FALSE

\* fetch_sources: the cached sources are returned
UseCache == ~force_fetch /\ latin_cached /\ english_cached

\* fetch_sources up to the first request: the cache directory is made, and
\* the cached sources are read when both are there and force is not set
FetchSources ==
    /\ pc = "fetch"
    /\ stages' = Append(stages, "fetch")
    /\ \/ Raises("OSError")
       \/ /\ UseCache
          /\ pc' = "parse_latin"
          /\ exc' = exc
       \/ /\ ~UseCache
          /\ pc' = "fetch_latin"
          /\ exc' = exc
    /\ UNCHANGED <<exit_code, retryVars, written, force_fetch, latin_cached,
                   english_cached, alignVars, distributeVars, segmentVars,
                   difficultyVars, scoreVars, corpusVars, frequencyVars,
                   perseusVars>>

\* (variant: the wait is made after the last attempt as well)
Wait_AfterEvery(k) == <<2^k>>

\* _http_get_with_retry, the except clause: the wait after the failed
\* attempt k, none when it was the last
Wait(k) == IF k < max_retries - 1 THEN <<2^k>> ELSE << >>

\* _http_get_with_retry, one pass of the loop: the response is returned, or
\* a RequestException is caught, after the last of which FetchError is
\* raised. The pass is the first of a call when no call is under way.
HttpGetWithRetry ==
    /\ pc \in {"fetch_latin", "fetch_english"}
    /\ LET first == response # "pending"
           k == IF first THEN 0 ELSE attempt
           n == IF first THEN 0 ELSE requests
           w == IF first THEN << >> ELSE slept
       IN  /\ k < max_retries
           /\ requests' = n + 1
           /\ \/ /\ pc' = IF pc = "fetch_latin" THEN "fetch_english"
                                                ELSE "cache"
                 /\ attempt' = k
                 /\ slept' = w
                 /\ response' = "text"
                 /\ exc' = exc
              \/ /\ attempt' = k + 1
                 /\ slept' = w \o Wait(k)
                 /\ IF k + 1 = max_retries
                    THEN Raises("FetchError") /\ response' = "FetchError"
                    ELSE pc' = pc /\ exc' = exc /\ response' = "pending"
    /\ UNCHANGED <<stages, exit_code, written, force_fetch, latin_cached,
                   english_cached, alignVars, distributeVars, segmentVars,
                   difficultyVars, scoreVars, corpusVars, frequencyVars,
                   perseusVars>>

\* fetch_sources, the end: both sources are written to the cache, the Latin
\* one first
CacheSources ==
    /\ pc = "cache"
    /\ \/ /\ latin_cached' = TRUE /\ english_cached' = TRUE
          /\ written' = {"latin", "english"}
          /\ pc' = "parse_latin"
          /\ exc' = exc
       \/ /\ \/ /\ latin_cached' = latin_cached
                /\ written' = written
             \/ /\ latin_cached' = TRUE
                /\ written' = {"latin"}
          /\ english_cached' = english_cached
          /\ Raises("OSError")
    /\ UNCHANGED <<stages, exit_code, retryVars, force_fetch, alignVars,
                   distributeVars, segmentVars, difficultyVars, scoreVars,
                   corpusVars, frequencyVars, perseusVars>>

\* a call of the try block is made: the stage has run
Called(stage) ==
    /\ stages' = Append(stages, stage)
    /\ UNCHANGED <<exit_code, retryVars, written, force_fetch, latin_cached,
                   english_cached, alignVars, distributeVars, segmentVars,
                   difficultyVars, scoreVars, corpusVars, frequencyVars,
                   perseusVars>>

\* it returns, and the next call is `next`
Returns(next) == pc' = next /\ exc' = exc

\* parse_latin returns the sections or raises ParseError
RunParseLatin ==
    /\ pc = "parse_latin"
    /\ Called("parse_latin")
    /\ Returns("parse_english") \/ Raises("ParseError")

\* parse_english returns the texts or raises ParseError; the merge loop
RunParseEnglish ==
    /\ pc = "parse_english"
    /\ Called("parse_english")
    /\ Returns("segment") \/ Raises("ParseError")

\* segment_latin has no raise
RunSegment ==
    /\ pc = "segment"
    /\ Called("segment")
    /\ Returns("align")

\* align_translations has no raise (AlignmentError is raised nowhere)
RunAlign ==
    /\ pc = "align"
    /\ Called("align")
    /\ Returns("score")

\* lemmatize_and_score has no raise
RunScore ==
    /\ pc = "score"
    /\ Called("score")
    /\ Returns("export")

\* export_corpus returns, raises ValidationError (a sentence is invalid,
\* the write fails) or OSError (the directory cannot be made)
RunExport ==
    /\ pc = "export"
    /\ Called("export")
    /\ Returns("exported") \/ Raises("ValidationError") \/ Raises("OSError")

\* the difficulty range is logged and EXIT_SUCCESS returned
ReturnSuccess ==
    /\ pc = "exported"
    /\ exit_code' = EXIT_SUCCESS
    /\ pc' = "returned"
    /\ UNCHANGED <<exc, stages, retryVars, written, force_fetch, latin_cached,
                   english_cached, alignVars, distributeVars, segmentVars,
                   difficultyVars, scoreVars, corpusVars, frequencyVars,
                   perseusVars>>

\* the except clauses: the code of the exception is returned, or the
\* exception leaves process_chapter
Except ==
    /\ pc = "except"
    /\ IF Handled(exc) # -1
       THEN exit_code' = Handled(exc) /\ pc' = "returned"
       ELSE exit_code' = exit_code /\ pc' = "raised"
    /\ UNCHANGED <<exc, stages, retryVars, written, force_fetch, latin_cached,
                   english_cached, alignVars, distributeVars, segmentVars,
                   difficultyVars, scoreVars, corpusVars, frequencyVars,
                   perseusVars>>

NextPipeline ==
    \/ FetchSources
    \/ HttpGetWithRetry
    \/ CacheSources
    \/ RunParseLatin
    \/ RunParseEnglish
    \/ RunSegment
    \/ RunAlign
    \/ RunScore
    \/ RunExport
    \/ ReturnSuccess
    \/ Except

SpecPipeline == InitPipeline /\ [][NextPipeline]_vars

----------------------------------------------------------------------------
(* One chapter through the stages that work on its sentences               *)
(* (process-corpus.py, process_chapter from the merge loop to the          *)
(* validation loop of export_corpus).                                      *)

\* the largest section number, and the texts of a section and of a chunk:
\* parse_latin returns sections with ascending numbers and a text that is
\* not blank, parse_english one chunk for each section
MaxSectionNumber == 3
ChapterTexts ==
    { <<"E", "s", "t", ".">>,
      <<"A", " ", "c", "f", ".", " ", "B", ".", " ", "D", ".">> }
ChapterChunks ==
    { << >>,
      <<"I", "t", " ", "i", "s", ".">>,
      <<"A", ".", " ", "B", ".", " ", "C", ".", " ", "D", ".">> }

\* one or two sections, with or without gaps in their numbers
InitChapter ==
    /\ pc = "merge"
    /\ exc = "none"
    /\ \E numbers \in SUBSET (1..MaxSectionNumber) :
          /\ Cardinality(numbers) \in {1, 2}
          /\ \E texts \in [1..Cardinality(numbers) -> ChapterTexts] :
                sections = [k \in 1..Cardinality(numbers) |->
                               Section(SortedSeq(numbers)[k], texts[k])]
          /\ english_sections \in [1..Cardinality(numbers) -> ChapterChunks]
    /\ \E bc \in {<<0, 0>>, <<2, 12>>} : book = bc[1] /\ chapter = bc[2]
    /\ freq_table \in {FALLBACK_FREQUENCY, SignedFrequency}
    /\ all_sentences = << >>
    /\ latin_sentences = << >>
    /\ sentences = << >>
    /\ result = << >>
    /\ avg_rank = FZero
    /\ latin_text = << >> /\ freq_ranks = << >> /\ max_rank = 0
    /\ difficulty = 0
    /\ raw_scores = << >> /\ difficulties = << >>
    /\ NoDistribute
    /\ NoOther

\* for section, english in zip(sections, english_texts)
MergeEnglish ==
    /\ pc = "merge"
    /\ sections' = [k \in 1..Len(sections) |->
                       [sections[k] EXCEPT !.english_text = english_sections[k]]]
    /\ pc' = "segment_chapter"
    /\ UNCHANGED <<exc, book, chapter, all_sentences, alignVars,
                   distributeVars, difficultyVars, scoreVars, otherVars>>

\* segmented = segment_latin(sections, book, chapter)
SegmentChapter ==
    /\ pc = "segment_chapter"
    /\ \E abbrevs \in {LATIN_ABBREVS, Reverse(LATIN_ABBREVS)} :
          all_sentences' = segment_latin(sections, book, chapter, abbrevs)
    /\ pc' = "align_chapter"
    /\ UNCHANGED <<exc, sections, book, chapter, alignVars, distributeVars,
                   difficultyVars, scoreVars, otherVars>>

\* aligned = align_translations(segmented, english_texts)
AlignChapter ==
    /\ pc = "align_chapter"
    /\ LET r == align_translations(all_sentences, english_sections)
       IN  /\ latin_sentences' = r.sents
           /\ exc' = r.exc
    /\ pc' = "score_chapter"
    /\ UNCHANGED <<english_sections, distributeVars, segmentVars,
                   difficultyVars, scoreVars, otherVars>>

\* scored = lemmatize_and_score(aligned)
ScoreChapter ==
    /\ pc = "score_chapter"
    /\ result' = lemmatize_and_score(latin_sentences, freq_table)
    /\ pc' = "export_chapter"
    /\ UNCHANGED <<exc, sentences, freq_table, difficultyVars, alignVars,
                   distributeVars, segmentVars, otherVars>>

\* a Sentence of the pipeline as the values of its fields
TypedSentence(s) ==
    Sentence([str |-> s.id], [str |-> s.latin],
             [str |-> s.referenceTranslation], [int |-> s.difficulty],
             [int |-> s.order], [float |-> s.alignmentConfidence])

\* export_corpus(scored, output_path), the validation loop
ValidateChapter ==
    /\ pc = "export_chapter"
    /\ corpus' = [k \in 1..Len(result) |-> TypedSentence(result[k])]
    /\ raised' = ValidateAll([k \in 1..Len(result) |-> TypedSentence(result[k])])
    /\ pc' = "chapter_done"
    /\ UNCHANGED <<exc, output_file, temp_file, alignVars, distributeVars,
                   segmentVars, difficultyVars, scoreVars, frequencyVars,
                   pipelineVars, perseusVars>>

NextChapter ==
    \/ MergeEnglish
    \/ SegmentChapter
    \/ AlignChapter
    \/ ScoreChapter
    \/ ValidateChapter

SpecChapter == InitChapter /\ [][NextChapter]_vars

----------------------------------------------------------------------------
(* Alignment: what the claims speak of, computed from the state in exact   *)
(* integer arithmetic.                                                     *)

Done == pc = "done"

SectionNumbers == {latin_sentences[k].section : k \in 1..Len(latin_sentences)}

\* Ls: the sentences of section s
LatinCount(s) ==
    Cardinality({k \in 1..Len(latin_sentences) : latin_sentences[k].section = s})

HasChunk(s) == s - 1 < Len(english_sections)

\* the target sentences of the chunk of section s, and Es
TargetSentences(s) == SplitEnglishSentences(english_sections[s])
EnglishCount(s) == Len(TargetSentences(s))

\* the sentences of section s, in order
EnglishOf(s) ==
    LET ks == SortedSeq({k \in 1..Len(latin_sentences) :
                           latin_sentences[k].section = s})
    IN  [i \in 1..Len(ks) |-> latin_sentences[ks[i]].english]
ConfidenceOf(s) ==
    {latin_sentences[k].alignment_confidence :
        k \in {j \in 1..Len(latin_sentences) : latin_sentences[j].section = s}}

\* x is p/q up to the rounding of a few float operations: |x - p/q| is at
\* most 2^-50 * p/q  (x = m * 2^e with e < 0)
FNear(x, p, q) ==
    LET lhs == BMul(x.m, BFromInt(q))
        rhs == BShl(BFromInt(p), -x.e)
        d   == IF BCmp(lhs, rhs) >= 0 THEN BSub(lhs, rhs) ELSE BSub(rhs, lhs)
    IN  x.m # << >> /\ x.e < 0 /\ BCmp(BShl(d, 50), rhs) <= 0

\* C1: after align_translations every sentence has a non-empty english text
\* and a confidence between 0 and 1.
ThmC1_TargetTextAndConfidenceRange ==
    Done =>
        \A k \in 1..Len(latin_sentences) :
            /\ latin_sentences[k].english # << >>
            /\ FCmp(latin_sentences[k].alignment_confidence, FZero) >= 0
            /\ FCmp(latin_sentences[k].alignment_confidence, FOne) <= 0

\* a mismatched section (confidence strictly between 0 and 1) beside a
\* section without a chunk
WitC1_MismatchBesideMissing ==
    /\ Done
    /\ \E j, k \in 1..Len(latin_sentences) :
          /\ latin_sentences[j].english = MISSING_SECTION
          /\ FCmp(latin_sentences[k].alignment_confidence, FZero) > 0
          /\ FCmp(latin_sentences[k].alignment_confidence, FOne) < 0

\* e is a run of one or more consecutive target sentences, joined by spaces
IsRunOf(e, ts) ==
    \E a \in 1..Len(ts) : \E b \in a..Len(ts) :
        e = Join(<<" ">>, SubSeq(ts, a, b))

\* C2: align_translations never raises; a section past the end of the chunk
\* list gets "[MISSING SECTION]" and 0.0, a section whose chunk has no target
\* sentence gets "[MISSING TRANSLATION]" and 0.0, and every other section is
\* aligned to target sentences of its chunk.
ThmC2_NeverRaisesAndSentinels ==
    Done =>
        /\ exc = "none"
        /\ \A s \in SectionNumbers :
              IF ~HasChunk(s)
              THEN /\ \A i \in 1..LatinCount(s) : EnglishOf(s)[i] = MISSING_SECTION
                   /\ ConfidenceOf(s) = {FZero}
              ELSE IF EnglishCount(s) = 0
              THEN /\ \A i \in 1..LatinCount(s) :
                         EnglishOf(s)[i] = MISSING_TRANSLATION
                   /\ ConfidenceOf(s) = {FZero}
              ELSE /\ \A i \in 1..LatinCount(s) :
                         IsRunOf(EnglishOf(s)[i], TargetSentences(s))
                   /\ FZero \notin ConfidenceOf(s)

\* a first section that gets a sentinel, beside a section that is aligned
WitC2_SentinelBesideAligned ==
    /\ Done
    /\ exc = "none"
    /\ \E j, k \in 1..Len(latin_sentences) :
          /\ latin_sentences[j].english \in {MISSING_SECTION, MISSING_TRANSLATION}
          /\ latin_sentences[j].section = 1
          /\ latin_sentences[k].alignment_confidence # FZero

\* C3: in a section with Ls >= 1 sentences and Es >= 1 target sentences every
\* sentence has the same confidence: 1.0 if Ls = Es, 0.8*Ls/Es if Es > Ls,
\* 0.9*0.8*Es/Ls if Es < Ls; 0.24 for Ls = 3 and Es = 1.
ThmC3_ConfidenceFormula ==
    Done =>
        \A s \in SectionNumbers :
            (HasChunk(s) /\ EnglishCount(s) >= 1) =>
                \E c \in ConfidenceOf(s) :
                    /\ ConfidenceOf(s) = {c}
                    /\ LatinCount(s) = EnglishCount(s) => c = FOne
                    /\ EnglishCount(s) > LatinCount(s)
                          => FNear(c, 8 * LatinCount(s), 10 * EnglishCount(s))
                    /\ EnglishCount(s) < LatinCount(s)
                          => FNear(c, 72 * EnglishCount(s), 100 * LatinCount(s))
                    /\ (LatinCount(s) = 3 /\ EnglishCount(s) = 1)
                          => c = FRat(24, 100)

\* three sentences share one target sentence; elsewhere a fan-out
WitC3_ThreeShareOne ==
    /\ Done
    /\ LatinCount(1) = 3
    /\ HasChunk(1)
    /\ EnglishCount(1) = 1
    /\ ConfidenceOf(1) = {FRat(24, 100)}

\* C4: in the fan-in case (1 <= Es < Ls) the sentence at place i of its
\* section receives the target sentence at index min(floor(i*Es/Ls), Es-1).
CexC4_FanInIndex ==
    Done =>
        \A s \in SectionNumbers :
            (HasChunk(s) /\ 1 <= EnglishCount(s)
                         /\ EnglishCount(s) < LatinCount(s)) =>
                \A i \in 1..LatinCount(s) :
                    EnglishOf(s)[i] =
                        TargetSentences(s)[
                            Min2(((i - 1) * EnglishCount(s)) \div LatinCount(s),
                                 EnglishCount(s) - 1) + 1]

\* the texts `engs` from place i on are consecutive spans of ts that start at
\* index `start` (0-indexed), each of `lo` or `hi` sentences
RECURSIVE SpansFrom(_, _, _, _, _, _)
SpansFrom(engs, i, ts, start, lo, hi) ==
    IF i > Len(engs) THEN TRUE
    ELSE \E size \in {lo, hi} :
            /\ start + size <= Len(ts)
            /\ engs[i] = Join(<<" ">>, SubSeq(ts, start + 1, start + size))
            /\ SpansFrom(engs, i + 1, ts, start + size, lo, hi)

CeilDiv(a, b) == (a + b - 1) \div b

----------------------------------------------------------------------------
(* Distribution: the claims.                                               *)

\* C6: _distribute_text(text, N) returns exactly N chunks for N >= 1, whatever
\* the text, and the empty list for N <= 0.
ThmC6_ChunkCount ==
    pc = "done" =>
        /\ section_count >= 1 => Len(chunks) = section_count
        /\ section_count <= 0 => chunks = << >>

\* fewer sentences than sections, with padding; the empty text
WitC6_PaddedToCount ==
    /\ pc = "done"
    /\ section_count = 3
    /\ text = << >>
    /\ chunks = << << >>, << >>, << >> >>

\* the sentences of the text
SentencesOfText == RegexSplit(text, Upper)

\* C7: with N = 1 the chunk is the whole text; with N >= 2 and S <= N chunk i
\* is sentence i for i < S and empty for i >= S; with S > N >= 2 chunk i holds
\* the sentences floor(i*S/N) up to but excluding floor((i+1)*S/N), the last
\* chunk running through the end of the list.
CexC7_ChunkContents ==
    pc = "done" =>
        LET S == Len(SentencesOfText)
            N == section_count
        IN  /\ N = 1 => (Len(chunks) = 1 /\ Strip(chunks[1]) = Strip(text))
            /\ (N >= 2 /\ S <= N) =>
                  /\ Len(chunks) = N
                  /\ \A i \in 0..(N - 1) :
                        chunks[i + 1] =
                            IF i < S THEN SentencesOfText[i + 1] ELSE << >>
            /\ (N >= 2 /\ S > N) =>
                  /\ Len(chunks) = N
                  /\ \A i \in 0..(N - 1) :
                        chunks[i + 1] =
                            Strip(Join(<<" ">>,
                                Slice(SentencesOfText, (i * S) \div N,
                                      IF i = N - 1 THEN S
                                      ELSE ((i + 1) * S) \div N)))

----------------------------------------------------------------------------
(* Segmentation: the claims.                                               *)

\* int(s) for a string of digits
RECURSIVE ParseNat(_)
ParseNat(s) ==
    IF s = << >> THEN 0
    ELSE 10 * ParseNat(SubSeq(s, 1, Len(s) - 1))
         + (CHOOSE d \in 0..9 : DigitSeq[d + 1] = s[Len(s)])

\* the final numeric component of an id
LastComponent(id) ==
    LET dots == {i \in 1..Len(id) : id[i] = "."}
    IN  ParseNat(SubSeq(id, SetMax(dots) + 1, Len(id)))

IsBlank(t) == Strip(t) = << >>

\* C8: the final components of the ids are 1, 2, ..., M in emission order;
\* position is 1 at the first sentence of every section and grows by 1 within
\* it; a section with empty or blank text contributes no sentence, raises
\* nothing and takes no id number.
ThmC8_ChapterWideCounter ==
    pc = "done" =>
        /\ exc = "none"
        /\ \A k \in 1..Len(all_sentences) :
              /\ LastComponent(all_sentences[k].id) = k
              /\ all_sentences[k].position =
                    IF k > 1 /\ all_sentences[k - 1].section
                                    = all_sentences[k].section
                    THEN all_sentences[k - 1].position + 1
                    ELSE 1
        /\ \A j \in 1..Len(sections) :
              IsBlank(sections[j].latin_text) =>
                  \A k \in 1..Len(all_sentences) :
                      all_sentences[k].section # sections[j].number

\* a blank section between two sections of several sentences: the counter
\* runs on across it and the position restarts
WitC8_BlankSectionBetween ==
    /\ pc = "done"
    /\ Len(sections) = 3
    /\ IsBlank(sections[2].latin_text)
    /\ \E k \in 3..Len(all_sentences) :
          /\ all_sentences[k].section = sections[3].number
          /\ all_sentences[k].position = 1
          /\ all_sentences[k - 1].section = sections[1].number
          /\ all_sentences[k - 1].position >= 2
          /\ k < Len(all_sentences)

----------------------------------------------------------------------------
(* Scoring: the claims.                                                    *)

\* C9: lemmatize_and_score emits one Sentence per input sentence, in input
\* order, with order = 1..N, and with id, latin, target text (as
\* referenceTranslation) and alignment confidence carried over unchanged.
ThmC9_OnePerSentenceInOrder ==
    pc = "score_done" =>
        /\ Len(result) = Len(sentences)
        /\ \A k \in 1..Len(result) :
              /\ result[k].order = k
              /\ result[k].id = sentences[k].id
              /\ result[k].latin = sentences[k].latin
              /\ result[k].referenceTranslation = sentences[k].english
              /\ result[k].alignmentConfidence
                    = sentences[k].alignment_confidence

\* three different sentences scored
WitC9_ThreeScored ==
    /\ pc = "score_done"
    /\ Len(result) = 3
    /\ result[1].latin # result[2].latin
    /\ result[2].latin # result[3].latin
    /\ result[1].alignmentConfidence # result[3].alignmentConfidence
    /\ result[3].order = 3

MinimumPositions ==
    {i \in 1..Len(raw_scores) :
        \A j \in 1..Len(raw_scores) : FCmp(raw_scores[i], raw_scores[j]) <= 0}

MaximumPositions ==
    {i \in 1..Len(raw_scores) :
        \A j \in 1..Len(raw_scores) : FCmp(raw_scores[i], raw_scores[j]) >= 0}

DistinctScores == {raw_scores[i] : i \in 1..Len(raw_scores)}

CexC12_RoundedPercentile ==
    (pc = "percentile_done" /\ Len(raw_scores) >= 2) =>
        \A i \in 1..Len(raw_scores) :
            \E d \in 1..100 :
                /\ difficulties[i] = Clamp(d)
                /\ LET n == Len(raw_scores)
                       exact == (n - 1) + 99 * SortedRank(raw_scores, i)
                       diff == d * (n - 1) - exact
                   IN  2 * diff <= n - 1 /\ 2 * (0 - diff) <= n - 1

----------------------------------------------------------------------------
(* The corpus file: the claims.                                            *)

\* the file that export_corpus wrote holds the exported sentences, read back
WrittenSentences == Load(output_file).dict.sentences.list

\* C13: for every list of Sentences that each satisfy validate_sentence,
\* export_corpus followed by validate_corpus_file on the written file
\* succeeds, and the written sentences equal the exported ones field by
\* field.
CexC13_RoundTrip ==
    pc = "round_trip_done" =>
        /\ raised = NoException
        /\ WrittenSentences = [i \in 1..Len(corpus) |-> asdict(corpus[i])]

\* the field rules of a Sentence, on an element as it is written; `strict`
\* takes each rule in its narrow sense (a text of blanks is empty, the id
\* ends with its last digit, a null confidence is not absent)
ElementValid(e, strict) ==
    LET Text(j) ==
            /\ "string" \in DOMAIN j
            /\ j.string # << >>
            /\ strict => Strip(Unescape(j.string)) # << >>
        Integer(j) ==
            "number" \in DOMAIN j /\ "int" \in DOMAIN ParseNumber(j.number)
        Between0And1(j) ==
            /\ "number" \in DOMAIN j
            /\ ~Less(ParseNumber(j.number), 0)
            /\ ~Greater(ParseNumber(j.number), 1)
    IN  /\ "object" \in DOMAIN e
        /\ {"id", "latin", "referenceTranslation", "difficulty", "order"}
              \subseteq DOMAIN e.object
        /\ "string" \in DOMAIN e.object.id
        /\ MatchesId(Unescape(e.object.id.string))
        /\ strict => e.object.id.string[Len(e.object.id.string)] \in Digits
        /\ Text(e.object.latin)
        /\ Text(e.object.referenceTranslation)
        /\ Integer(e.object.difficulty)
        /\ ParseNumber(e.object.difficulty.number).int \in 1..100
        /\ Integer(e.object.order)
        /\ ParseNumber(e.object.order.number).int >= 1
        /\ "alignmentConfidence" \in DOMAIN e.object =>
              \/ Between0And1(e.object.alignmentConfidence)
              \/ ~strict /\ "null" \in DOMAIN e.object.alignmentConfidence

\* a JSON object with a non-empty array `sentences` of valid elements
SchemaValid(doc, strict) ==
    /\ "object" \in DOMAIN doc
    /\ "sentences" \in DOMAIN doc.object
    /\ "array" \in DOMAIN doc.object.sentences
    /\ doc.object.sentences.array # << >>
    /\ \A i \in 1..Len(doc.object.sentences.array) :
          ElementValid(doc.object.sentences.array[i], strict)

\* C14: validate_corpus_file accepts a document if and only if it is a JSON
\* object with a non-empty array `sentences` whose every element satisfies
\* the field rules (id bg.<digits>.<digits>.<digits>, non-empty latin and
\* referenceTranslation, integer difficulty in [1,100], integer order >= 1,
\* alignmentConfidence absent or a number in [0,1]); every other document is
\* rejected with a ValidationError. Where a rule can be read two ways, the
\* document may be accepted or rejected.
CexC14_AcceptsIffSchemaValid ==
    (pc = "validate_done" /\ output_file # NoFile) =>
        /\ raised = NoException => SchemaValid(output_file, FALSE)
        /\ SchemaValid(output_file, TRUE) => raised = NoException
        /\ raised # NoException => raised.type = "ValidationError"

\* the elements of the document's `sentences`, << >> if it has no such array
ElementsOf(doc) ==
    IF /\ "object" \in DOMAIN doc
       /\ "sentences" \in DOMAIN doc.object
       /\ "array" \in DOMAIN doc.object.sentences
    THEN doc.object.sentences.array
    ELSE << >>

\* C15: whenever validate_corpus_file rejects a document because the element
\* at index i violates a field rule, the ValidationError it reports
\* identifies the index i together with the reason: the message is the one
\* that carries an index ("Invalid sentence at index i: reason"), and the
\* element at that index violates a rule.
CexC15_RejectionNamesIndex ==
    (/\ pc = "validate_done"
     /\ ElementsOf(output_file) # << >>
     /\ raised # NoException) =>
        /\ raised.type = "ValidationError"
        /\ raised.text = "Invalid sentence at index"
        /\ \E i \in 1..Len(ElementsOf(output_file)) :
              /\ raised.args[1] = [int |-> i - 1]
              /\ ~ElementValid(ElementsOf(output_file)[i], TRUE)

\* some sentence of the list given to export_corpus fails validate_sentence
SomeInvalid ==
    \E k \in 1..Len(corpus) : validate_sentence(corpus[k]) # NoException

\* C16: if any sentence in the list passed to export_corpus fails
\* validate_sentence, export_corpus raises ValidationError before anything
\* is written: starting without a temp file, its one step creates no temp
\* file, leaves the file at the output path as it was, and ends in the
\* exception.
ThmC16_InvalidNeverWritten ==
    [][(pc = "export" /\ SomeInvalid) =>
          /\ temp_file = NoFile /\ temp_file' = NoFile
          /\ output_file' = output_file
          /\ pc' = "export_raised"
          /\ raised'.type = "ValidationError"
          /\ raised'.text # "Failed to write corpus"]_vars

\* a valid sentence followed by one whose difficulty is 0, exported to a
\* path where an older corpus is: the call raised and the older corpus is
\* there
WitC16_SecondInvalid ==
    /\ pc = "export_raised"
    /\ Len(corpus) = 2
    /\ validate_sentence(corpus[1]) = NoException
    /\ corpus[2].difficulty = [int |-> 0]
    /\ raised.text = "Difficulty out of range for"
    /\ ElementsOf(output_file) # << >>
    /\ temp_file = NoFile

----------------------------------------------------------------------------
(* Segmentation: the claims about segment_regex, on the sentences that     *)
(* segment_latin took from it for each section.                            *)

\* the sentences of section j, in order
SentencesOfSection(j) ==
    LET ks == {k \in 1..Len(all_sentences) :
                  all_sentences[k].section = sections[j].number}
    IN  [i \in 1..Cardinality(ks) |-> all_sentences[SortedSeq(ks)[i]].latin]

\* C17: for any non-empty source text, joining the sentences returned by
\* segment_regex with single spaces reproduces exactly the
\* whitespace-normalized original text: no character is lost, added or
\* changed by abbreviation protection, splitting and placeholder
\* restoration.
CexC17_RejoinedIsNormalized ==
    pc = "done" =>
        \A j \in 1..Len(sections) :
            sections[j].latin_text # << >> =>
                Join(<<" ">>, SentencesOfSection(j))
                    = NormalizeWs(sections[j].latin_text)

\* s is an entry of LATIN_ABBREVS, in any letter case, followed by a period
IsAbbrevToken(s) ==
    \E a \in 1..Len(LATIN_ABBREVS) :
        /\ Len(s) = Len(LATIN_ABBREVS[a]) + 1
        /\ s[Len(s)] = "."
        /\ \A k \in 1..Len(LATIN_ABBREVS[a]) :
              ToLower(s[k]) = LATIN_ABBREVS[a][k]

----------------------------------------------------------------------------
(* The frequency table: what the claim speaks of, said from the texts      *)
(* given to add_text and not from the counter.                             *)

\* the tokens of the texts, in the order of the calls
RECURSIVE TokensOf(_)
TokensOf(texts) ==
    IF texts = << >> THEN << >>
    ELSE tokenize_latin(Head(texts)) \o TokensOf(Tail(texts))

\* the distinct tokens of a token sequence, how often one occurs in it, and
\* where it occurs first
DistinctTokens(tokens) == {tokens[i] : i \in 1..Len(tokens)}
Occurrences(tokens, w) == Cardinality({i \in 1..Len(tokens) : tokens[i] = w})
FirstEncounter(tokens, w) == SetMin({i \in 1..Len(tokens) : tokens[i] = w})

\* C19: after any sequence of add_text calls build_ranks returns a
\* one-to-one mapping from the K distinct accumulated tokens onto 1..K,
\* K = get_max_rank(); a token with a larger count has a smaller rank,
\* tokens with equal counts are ranked in the order of first encounter, and
\* the table is the one determined by the call sequence alone.
ThmC19_FrequencyRanks ==
    pc = "ranked" =>
        LET K == get_max_rank(counter)
            tokens == TokensOf(added)
            D == DistinctTokens(tokens)
            n == [w \in D |-> Occurrences(tokens, w)]
            first == [w \in D |-> FirstEncounter(tokens, w)]
        IN  /\ DOMAIN ranks = D
            /\ K = Cardinality(D)
            /\ {ranks[w] : w \in D} = 1..K
            /\ \A v, w \in D :
                  /\ n[v] > n[w] => ranks[v] < ranks[w]
                  /\ (n[v] = n[w] /\ first[v] < first[w]) => ranks[v] < ranks[w]
            /\ ranks = [w \in D |->
                          1 + Cardinality({v \in D :
                                \/ n[v] > n[w]
                                \/ n[v] = n[w] /\ first[v] < first[w]})]

\* "in" and "et" both counted twice, "in" met first, "sum" counted once
WitC19_TieByFirstEncounter ==
    /\ pc = "ranked"
    /\ added = << <<"I", "n", " ", "e", "t", ",", " ", "e", "t", ".">>,
                  <<"s", "u", "m", " ", "a", " ", "1", "2", " ", "i", "n">> >>
    /\ ranks[<<"i", "n">>] = 1
    /\ ranks[<<"e", "t">>] = 2
    /\ ranks[<<"s", "u", "m">>] = 3

----------------------------------------------------------------------------
(* The pipeline: what the claim speaks of.                                 *)

\* the stages in the order the claim gives
StageOrder ==
    <<"fetch", "parse_latin", "parse_english", "segment", "align", "score",
      "export">>

IsPrefix(s, t) == Len(s) <= Len(t) /\ s = SubSeq(t, 1, Len(s))

\* the stages that have run, as a set
StagesRun == {stages[i] : i \in 1..Len(stages)}

\* C20: process_chapter runs its stages strictly in the order fetch, parse
\* Latin, parse English, segment, align, score, export; the first stage that
\* fails stops the run, no later stage executes (export never runs after a
\* fetch or parse failure); the return code is 0 on success, 1 for
\* FetchError, 2 for ParseError, 3 for AlignmentError, 4 for ValidationError.
ThmC20_StagesAndExitCodes ==
    /\ [](/\ IsPrefix(stages, StageOrder)
          /\ exc = "FetchError" => stages = <<"fetch">>
          /\ exc = "ParseError" => StagesRun \subseteq
                                     {"fetch", "parse_latin", "parse_english"}
          /\ exc \in {"FetchError", "ParseError"} => "export" \notin StagesRun
          /\ exit_code = 0 <=> pc = "returned" /\ exc = "none"
          /\ exit_code = 0 => stages = StageOrder
          /\ pc = "returned" /\ exc = "FetchError" => exit_code = 1
          /\ pc = "returned" /\ exc = "ParseError" => exit_code = 2
          /\ pc = "returned" /\ exc = "ValidationError" => exit_code = 4
          /\ Handled("AlignmentError") = 3)
    /\ [][exc # "none" => stages' = stages]_vars

\* the English page has no chapter text: the run ends after three stages
\* with code 2
WitC20_ParseEnglishFails ==
    /\ pc = "returned"
    /\ exc = "ParseError"
    /\ stages = <<"fetch", "parse_latin", "parse_english">>
    /\ exit_code = 2

----------------------------------------------------------------------------
(* The retrying request: what the claim speaks of. `attempt` is the number *)
(* of failed attempts of the call that is under way or has ended last, and *)
(* `requests` the number of its requests: a call that returned the         *)
(* response made one request more than failed, the successful one last.    *)

----------------------------------------------------------------------------
(* The source cache: what the claim speaks of. `written` holds the cache   *)
(* files that the call has written, so while it is empty both files are as *)
(* they were before the call.                                              *)

\* C29: if fetch_sources raises FetchError neither cache file has been
\* created or modified by the call: both are written only after both
\* downloads succeeded, and with force false and both cache files present
\* no request is made at all.
ThmC29_CacheUntouchedOnFetchError ==
    /\ exc = "FetchError" => written = {}
    /\ written # {} =>
          /\ response = "text"
          /\ pc \notin {"fetch", "fetch_latin", "fetch_english", "cache"}
    /\ (~force_fetch /\ latin_cached /\ english_cached /\ written = {}) =>
          requests = 0 /\ response = "none" /\ exc # "FetchError"

\* a download fails for good with only the English source in the cache,
\* and the cache is as it was
WitC29_FetchErrorLeavesCache ==
    /\ exc = "FetchError"
    /\ exit_code = 1
    /\ ~latin_cached /\ english_cached
    /\ written = {}

----------------------------------------------------------------------------
(* Alignment: no target sentence is dropped.                               *)

\* the texts `engs` from place i on are spans of ts, one after the other
\* from index `start` (0-indexed) to the end of ts
RECURSIVE SpansCover(_, _, _, _)
SpansCover(engs, i, ts, start) ==
    IF i > Len(engs) THEN start = Len(ts)
    ELSE \E size \in 0..(Len(ts) - start) :
            /\ engs[i] = Join(<<" ">>, SubSeq(ts, start + 1, start + size))
            /\ SpansCover(engs, i + 1, ts, start + size)

\* the texts `engs` from place i on are single sentences of ts, each the
\* one at index j (from 1) or the next, up to the last of ts
RECURSIVE SharedCover(_, _, _, _)
SharedCover(engs, i, ts, j) ==
    IF i > Len(engs) THEN j = Len(ts)
    ELSE \E n \in {j, j + 1} \cap 1..Len(ts) :
            /\ engs[i] = ts[n]
            /\ SharedCover(engs, i + 1, ts, n)

\* C22: for a section with Ls >= 1 sentences and a chunk of Es >= 1 target
\* sentences every target sentence is assigned to at least one sentence of
\* the section, in non-decreasing order of target index; in fan-out the
\* first span starts at index 0 and the last ends at Es, each target
\* sentence appearing exactly once.
CexC22_NoTargetDropped ==
    Done =>
        \A s \in SectionNumbers :
            (HasChunk(s) /\ EnglishCount(s) >= 1) =>
                IF EnglishCount(s) >= LatinCount(s)
                THEN SpansCover(EnglishOf(s), 1, TargetSentences(s), 0)
                ELSE SharedCover(EnglishOf(s), 1, TargetSentences(s), 0)

----------------------------------------------------------------------------
(* Distribution: nothing is lost or duplicated. A chunk is stripped, so    *)
(* sentences are compared without the whitespace around them, and a blank  *)
(* piece is no sentence.                                                   *)

\* the sentences of a text: the pieces of the split, stripped, the blank
\* ones left out
StrippedSentences(t) ==
    LET parts == RegexSplit(t, Upper)
        NotBlank(s) == Strip(s) # << >>
        kept == SelectSeq(parts, NotBlank)
    IN  [i \in 1..Len(kept) |-> Strip(kept[i])]

\* the sentences of the chunks from chunk i on, in order
RECURSIVE SentencesFromChunk(_, _)
SentencesFromChunk(cs, i) ==
    IF i > Len(cs) THEN << >>
    ELSE StrippedSentences(cs[i]) \o SentencesFromChunk(cs, i + 1)

\* C23: for every N >= 1 and every text, reading the sentences of chunk 0,
\* chunk 1, ..., chunk N-1 in order yields each sentence of the text exactly
\* once in the original order; and when the text has more sentences than N
\* every chunk contains at least one sentence.
ThmC23_NothingLostOrDuplicated ==
    (pc = "done" /\ section_count >= 1) =>
        /\ SentencesFromChunk(chunks, 1) = StrippedSentences(text)
        /\ Len(RegexSplit(text, Upper)) > section_count =>
              \A i \in 1..Len(chunks) : StrippedSentences(chunks[i]) # << >>

\* twelve sentences over nine sections, where the chunks are uneven
WitC23_TwelveOverNine ==
    /\ pc = "done"
    /\ section_count = 9
    /\ text = PaddedText(12)
    /\ Len(SentencesFromChunk(chunks, 1)) = 12
    /\ \A i \in 1..9 : chunks[i] # << >>

----------------------------------------------------------------------------
(* The chapter: the chunk of a section, and the validity of the result.    *)

Aligned == pc \in {"score_chapter", "export_chapter", "chapter_done"}

\* the sentences of the section at place k as segment_latin left them, the
\* section taken as the first of a chapter
OwnSentences(k) ==
    LET Own(sent) == sent.section = sections[k].number
        own == SelectSeq(all_sentences, Own)
    IN  [i \in 1..Len(own) |-> [own[i] EXCEPT !.section = 1]]

\* the target texts they get when aligned to the chunk that the merge loop
\* gave to the section
OwnEnglish(k) ==
    LET r == align_translations(OwnSentences(k), <<sections[k].english_text>>)
    IN  [i \in 1..Len(r.sents) |-> r.sents[i].english]

\* C24: for sections with unique numbers >= 1, dense or not, the chunk that
\* align_translations uses for a section is the chunk that process_chapter
\* assigned to the section's english_text, the one at the section's place
\* in the ascending list, so no section that was given a chunk is marked
\* "[MISSING SECTION]".
CexC24_ChunkOfSection ==
    Aligned =>
        \A k \in 1..Len(sections) :
            /\ EnglishOf(sections[k].number) = OwnEnglish(k)
            /\ \A i \in 1..LatinCount(sections[k].number) :
                  EnglishOf(sections[k].number)[i] # MISSING_SECTION

\* C25: every Sentence list produced by segment_latin, align_translations
\* and lemmatize_and_score, for any sections, any chunks and non-negative
\* book and chapter numbers, satisfies validate_sentence on every element,
\* so the validation loop of export_corpus raises nothing.
ThmC25_PipelineOutputValid ==
    pc = "chapter_done" =>
        /\ raised = NoException
        /\ Len(corpus) = Len(all_sentences)
        /\ \A k \in 1..Len(corpus) : validate_sentence(corpus[k]) = NoException

\* book 0, chapter 0, two sections of which the second has no chunk of its
\* own place: sentinel texts among the four sentences, all of them valid
WitC25_SentinelsAreValid ==
    /\ pc = "chapter_done"
    /\ book = 0
    /\ Len(corpus) = 4
    /\ corpus[4].referenceTranslation = [str |-> MISSING_SECTION]
    /\ corpus[1].referenceTranslation = [str |-> MISSING_TRANSLATION]
    /\ raised = NoException

----------------------------------------------------------------------------
(* Percentile difficulties keep order and place.                           *)

\* the batch in ascending order, equal scores in their order
SortedScores ==
    LET at == [r \in 0..(Len(raw_scores) - 1) |->
                  CHOOSE i \in 1..Len(raw_scores) : SortedRank(raw_scores, i) = r]
    IN  [k \in 1..Len(raw_scores) |-> raw_scores[at[k - 1]]]

\* C26: the result of assign_percentile_difficulties has the length of the
\* input; result[k] is the difficulty of raw_scores[k], the one its place
\* in the sorted batch gives; raw_scores[i] < raw_scores[j] implies
\* result[i] <= result[j]; of equal raw scores the earlier one receives the
\* lower or equal difficulty; a batch of a single score yields [1].
ThmC26_OrderAndPlacePreserved ==
    pc = "percentile_done" =>
        /\ Len(difficulties) = Len(raw_scores)
        /\ \A k \in 1..Len(raw_scores) :
              difficulties[k] =
                  assign_percentile_difficulties(SortedScores)[
                      SortedRank(raw_scores, k) + 1]
        /\ \A i, j \in 1..Len(raw_scores) :
              /\ FCmp(raw_scores[i], raw_scores[j]) < 0 =>
                    difficulties[i] <= difficulties[j]
              /\ (raw_scores[i] = raw_scores[j] /\ i < j) =>
                    difficulties[i] <= difficulties[j]
        /\ Len(raw_scores) = 1 => difficulties = <<1>>

\* an unsorted batch with two pairs of equal scores
WitC26_UnsortedWithTies ==
    /\ pc = "percentile_done"
    /\ raw_scores = <<FOne, FZero, F025, FZero, FOne>>
    /\ difficulties = <<75, 1, 50, 25, 100>>

----------------------------------------------------------------------------
(* Alignment: the sentences of low confidence.                             *)

\* C27: the confidence of an aligned sentence is at least 0.8 if and only
\* if its section has as many target sentences as sentences, and is 1.0
\* then; so the sentences of confidence below 0.8 are those of the sections
\* with mismatched counts, a missing chunk or an empty chunk.
ThmC27_LowConfidenceIsMismatch ==
    Done =>
        \A s \in SectionNumbers :
            LET targets == IF HasChunk(s) THEN EnglishCount(s) ELSE -1
                matched == targets = LatinCount(s)
            IN  \A conf \in ConfidenceOf(s) :
                    /\ FCmp(conf, MismatchFactor) >= 0 <=> matched
                    /\ matched => conf = FOne
                    /\ FCmp(conf, MismatchFactor) < 0 <=>
                          \/ ~HasChunk(s)
                          \/ targets = 0
                          \/ targets # LatinCount(s)

\* thirteen sentences against fourteen target sentences, the nearest miss,
\* beside a section of one sentence and two target sentences
WitC27_NearMatch ==
    /\ Done
    /\ LatinCount(1) = 13 /\ HasChunk(1) /\ EnglishCount(1) = 14
    /\ LatinCount(2) = 1 /\ HasChunk(2) /\ EnglishCount(2) = 2
    /\ \A k \in 1..Len(latin_sentences) :
          FCmp(latin_sentences[k].alignment_confidence, MismatchFactor) < 0

----------------------------------------------------------------------------
(* PerseusSource: the chapter counts and their file cache.                 *)

\* the book numbers asked for and the counts the CTS API answers
MaxBook == 2
MaxChapters == 2

\* the PerseusSource instances that share one cache directory
Instances == {"a", "b"}

\* PerseusSource.__init__: _chapter_counts = {}
EmptyCounts == [b \in {} |-> 0]

\* json.dumps(self._chapter_counts): the keys of a JSON object are strings
JsonDumps(counts) ==
    [s \in {Dec(b) : b \in DOMAIN counts} |-> counts[ParseNat(s)]]

\* {int(k): v for k, v in json.loads(...).items()}
JsonLoads(file) ==
    [b \in {ParseNat(s) : s \in DOMAIN file} |-> file[Dec(b)]]

\* self._chapter_counts[book] = chapters
SetCount(counts, b, n) ==
    [k \in DOMAIN counts \cup {b} |-> IF k = b THEN n ELSE counts[k]]

\* get_chapter_count: the memory cache answers
MemoryHit(self, b, force) == ~force /\ b \in DOMAIN chapter_counts[self]

\* get_chapter_count: the file cache is read
FileRead(force) == ~force /\ cache_file # NoFile

\* get_chapter_count: _chapter_counts after the file cache was looked at
Loaded(self, force) ==
    IF FileRead(force) THEN JsonLoads(cache_file) ELSE chapter_counts[self]

InitPerseus ==
    /\ pc = "call"
    /\ exc = "none"
    /\ cache_file = NoFile
    /\ chapter_counts = [self \in Instances |-> EmptyCounts]
    /\ discovered = {}
    /\ returned = 0
    /\ NoAlign /\ NoDistribute /\ NoSegment /\ NoScore
    /\ NoCorpus /\ NoFrequency /\ NoPipeline

\* get_chapter_count returns the count of the memory cache
ReturnFromMemory ==
    /\ pc = "call"
    /\ \E self \in Instances, b \in 1..MaxBook, force \in BOOLEAN :
          /\ MemoryHit(self, b, force)
          /\ returned' = chapter_counts[self][b]
    /\ UNCHANGED <<pc, exc, cache_file, chapter_counts, discovered>>
    /\ UNCHANGED <<alignVars, distributeVars, segmentVars, difficultyVars,
                   scoreVars, corpusVars, frequencyVars, pipelineVars>>

\* get_chapter_count reads the file cache and returns its count
ReturnFromFile ==
    /\ pc = "call"
    /\ \E self \in Instances, b \in 1..MaxBook, force \in BOOLEAN :
          /\ ~MemoryHit(self, b, force)
          /\ FileRead(force)
          /\ b \in DOMAIN Loaded(self, force)
          /\ chapter_counts' =
                [chapter_counts EXCEPT ![self] = Loaded(self, force)]
          /\ returned' = Loaded(self, force)[b]
    /\ UNCHANGED <<pc, exc, cache_file, discovered>>
    /\ UNCHANGED <<alignVars, distributeVars, segmentVars, difficultyVars,
                   scoreVars, corpusVars, frequencyVars, pipelineVars>>

\* get_chapter_count asks the CTS API, keeps the count and writes the file
Discover ==
    /\ pc = "call"
    /\ \E self \in Instances, b \in 1..MaxBook, force \in BOOLEAN,
          chapters \in 1..MaxChapters :
          /\ ~MemoryHit(self, b, force)
          /\ ~(FileRead(force) /\ b \in DOMAIN Loaded(self, force))
          /\ LET counts == SetCount(Loaded(self, force), b, chapters)
             IN  /\ chapter_counts' = [chapter_counts EXCEPT ![self] = counts]
                 /\ cache_file' = JsonDumps(counts)
          /\ discovered' = discovered \cup {b}
          /\ returned' = chapters
    /\ UNCHANGED <<pc, exc>>
    /\ UNCHANGED <<alignVars, distributeVars, segmentVars, difficultyVars,
                   scoreVars, corpusVars, frequencyVars, pipelineVars>>

\* get_chapter_count raises: the request failed max_retries times, or the
\* response names no chapter of the book
DiscoverFails ==
    /\ pc = "call"
    /\ \E self \in Instances, b \in 1..MaxBook, force \in BOOLEAN :
          /\ ~MemoryHit(self, b, force)
          /\ ~(FileRead(force) /\ b \in DOMAIN Loaded(self, force))
          /\ chapter_counts' =
                [chapter_counts EXCEPT ![self] = Loaded(self, force)]
    /\ pc' = "except"
    /\ exc' \in {"FetchError", "ParseError"}
    /\ UNCHANGED <<cache_file, discovered, returned>>
    /\ UNCHANGED <<alignVars, distributeVars, segmentVars, difficultyVars,
                   scoreVars, corpusVars, frequencyVars, pipelineVars>>

NextPerseus ==
    \/ ReturnFromMemory
    \/ ReturnFromFile
    \/ Discover
    \/ DiscoverFails

SpecPerseus == InitPerseus /\ [][NextPerseus]_vars

\* the books that have an entry in chapter_counts.json
CachedBooks ==
    IF cache_file = NoFile THEN {}
    ELSE {ParseNat(s) : s \in DOMAIN cache_file}

\* C28: after any sequence of successful get_chapter_count calls, by one or
\* several instances and with any force flags, chapter_counts.json has an
\* entry for every book discovered so far.
CexC28_EveryDiscoveredBookCached ==
    exc = "none" => discovered \subseteq CachedBooks

====
